---- MODULE Spec2Model ----
(***************************************************************************)
(* Model of the Spades game server: the room manager (roomManager.js), the *)
(* game engine (gameEngine.js) and the socket.io orchestrator (index.js).  *)
(* One room of the rooms table is modelled; every socket.io handler and    *)
(* every setTimeout callback is one atomic action, because a Node.js       *)
(* handler runs to completion before the next event is taken.              *)
(***************************************************************************)
EXTENDS Integers, Sequences, FiniteSets, TLC

(***************************************************************************)
(* Bounds of the model.                                                    *)
(***************************************************************************)
\* number of client names that ever try to enter the room
NumNames == 2
\* number of random streams the shuffle can draw from
NumSeeds == 1
\* a client clicks one of the first MaxChoice playable cards of its hand
MaxChoice == 2
\* the host asks for a next round while currentRound is at most MaxRound
MaxRound == 2
\* pending setTimeout callbacks of one kind
MaxPending == 1
\* entries of the room that are disconnected at the same time
MaxDown == 1
\* ranks of the cards of a trick given to determineTrickWinner
NumRanks == 2
\* cards of such a trick
MaxTrick == 3
\* a total given to applyDenominatorPenalty is within MaxTotal of 0
MaxTotal == 20
\* and a round score within MaxStep of 0
MaxStep == 12
\* entries of a lobby whose members change its configuration
MaxLobby == 3
\* rounds played in the specification of the room
RoomRounds == 3

(***************************************************************************)
(* Program constants.                                                      *)
(***************************************************************************)
DeckSize == 104
MaxPlayers == 8
MinPlayers == 2
NilRound == 10
LastRound == 11

AllNames == <<"A", "B", "C", "D", "E", "F", "G", "H">>
Names == {AllNames[i] : i \in 1..NumNames}
NoName == "none"
\* the name of a client that is none of AllNames
Outsider == "Z"
\* The socket.io id of a client.  A client that reconnects gets a new id and
\* its old id is never seen again, so the successive ids of one client are
\* written as one: the position of its name.  Stranger is a connection that
\* never entered the room.
SocketOf(name) == CHOOSE i \in 1..NumNames : AllNames[i] = name
Stranger == NumNames + 1
Sockets == 1..Stranger
\* gs.bids[p]: an integer, or one of two values that are no number: NoBid
\* stands for undefined (no bid yet), NullBid for null (a bid of null)
NoBid == -1
NullBid == -2
Seeds == 1..NumSeeds

Min(a, b) == IF a < b THEN a ELSE b

(***************************************************************************)
(* gameEngine.js: deck and cards.  A card is its id 0..103; suit and value *)
(* are the ones createDoubleDeck gives to that id.                         *)
(***************************************************************************)
SUITS == <<"spades", "hearts", "diamonds", "clubs">>

Suit(c) == SUITS[((c % 52) \div 13) + 1]
Value(c) == (c % 13) + 2

\* the ids in the order of the three loops: deckNum, suit, rank
createDoubleDeck == SubSeq([i \in 1..DeckSize |-> i - 1], 1, DeckSize)

\* Math.random() of the stream: a linear congruential sequence
NextRandom(x) == (13 * x + 5) % 251

Swap(arr, i, j) == [arr EXCEPT ![i] = arr[j], ![j] = arr[i]]

\* one iteration of the Fisher-Yates loop at 0-based position i:
\* j = floor(random * (i + 1)), then arr[i] and arr[j] change places
ShuffleStep(st, i) ==
  LET r == NextRandom(st.x)
      j == r % (i + 1)
  IN [arr |-> Swap(st.arr, i + 1, j + 1), x |-> r]

\* the iterations for i = hi down to lo, split in halves (the upper half is
\* evaluated before the lower half starts) to keep the evaluation shallow
RECURSIVE ShuffleLoop(_, _, _)
ShuffleLoop(st, hi, lo) ==
  IF hi < lo THEN st
  ELSE IF hi = lo THEN ShuffleStep(st, hi)
  ELSE LET mid == (hi + lo + 1) \div 2
           upper == ShuffleLoop(st, hi, mid)
       IN IF upper.x >= 0 THEN ShuffleLoop(upper, mid - 1, lo) ELSE st

\* the stream of a seed starts at 2 * seed
shuffle(deck, seed) ==
  ShuffleLoop([arr |-> deck, x |-> 2 * seed], Len(deck) - 1, 1).arr

ShuffledDecks == [seed \in Seeds |-> shuffle(createDoubleDeck, seed)]

\* deck.slice(a, b) with 0-based a, exclusive b
Slice(s, a, b) ==
  LET hi == Min(b, Len(s))
  IN IF a >= hi THEN << >> ELSE [k \in 1..(hi - a) |-> s[a + k]]

IndexOf(seq, x) ==
  IF \E k \in 1..Len(seq) : seq[k] = x
  THEN (CHOOSE k \in 1..Len(seq) : seq[k] = x /\ \A m \in 1..(k - 1) : seq[m] # x) - 1
  ELSE -1

\* a deal whose slices begin one card early for each player before
dealOverlapping(players, cardsPerPlayer, seed) ==
  [p \in {players[k] : k \in 1..Len(players)} |->
     Slice(ShuffledDecks[seed], IndexOf(players, p) * (cardsPerPlayer - 1),
           IndexOf(players, p) * (cardsPerPlayer - 1) + cardsPerPlayer)]

deal(players, cardsPerPlayer, seed) ==
  [p \in {players[k] : k \in 1..Len(players)} |->
     Slice(ShuffledDecks[seed], IndexOf(players, p) * cardsPerPlayer,
           (IndexOf(players, p) + 1) * cardsPerPlayer)]

\* a comparison in which the earlier of two equal cards wins
isCardBetterStrict(cardA, cardB, ledSuit) ==
  LET aIsSpade == Suit(cardA) = "spades"
      bIsSpade == Suit(cardB) = "spades"
      aFollows == Suit(cardA) = ledSuit
      bFollows == Suit(cardB) = ledSuit
  IN IF aIsSpade /\ ~bIsSpade THEN TRUE
     ELSE IF bIsSpade /\ ~aIsSpade THEN FALSE
     ELSE IF aIsSpade /\ bIsSpade THEN Value(cardA) > Value(cardB)
     ELSE IF aFollows /\ ~bFollows THEN TRUE
     ELSE IF bFollows /\ ~aFollows THEN FALSE
     ELSE Value(cardA) > Value(cardB)

isCardBetter(cardA, cardB, ledSuit) ==
  LET aIsSpade == Suit(cardA) = "spades"
      bIsSpade == Suit(cardB) = "spades"
      aFollows == Suit(cardA) = ledSuit
      bFollows == Suit(cardB) = ledSuit
  IN IF aIsSpade /\ ~bIsSpade THEN TRUE
     ELSE IF bIsSpade /\ ~aIsSpade THEN FALSE
     ELSE IF aIsSpade /\ bIsSpade THEN Value(cardA) >= Value(cardB)
     ELSE IF aFollows /\ ~bFollows THEN TRUE
     ELSE IF bFollows /\ ~aFollows THEN FALSE
     ELSE Value(cardA) >= Value(cardB)

\* index (1-based) of the winning entry of the trick
RECURSIVE WinnerLoop(_, _, _, _)
WinnerLoop(trick, ledSuit, i, bestIdx) ==
  IF i > Len(trick) THEN bestIdx
  ELSE IF isCardBetter(trick[i].card, trick[bestIdx].card, ledSuit)
       THEN WinnerLoop(trick, ledSuit, i + 1, i)
       ELSE WinnerLoop(trick, ledSuit, i + 1, bestIdx)

determineTrickWinner(trick, ledSuit) ==
  LET bestIdx == WinnerLoop(trick, ledSuit, 2, 1)
  IN [winnerId |-> trick[bestIdx].playerId, winningCard |-> trick[bestIdx].card]

HasSuit(hand, suit) == \E k \in 1..Len(hand) : Suit(hand[k]) = suit

\* a validation that accepts every card
isValidPlayAnyCard(card, hand, ledSuit, spadesBroken, isLeading) == TRUE

isValidPlay(card, hand, ledSuit, spadesBroken, isLeading) ==
  IF isLeading THEN TRUE
  ELSE ~(HasSuit(hand, ledSuit) /\ Suit(card) # ledSuit)

RemoveAt(seq, k) == [m \in 1..(Len(seq) - 1) |-> IF m < k THEN seq[m] ELSE seq[m + 1]]


SuitOrder(c) == (c % 52) \div 13

\* the comparator of sortHand: negative when a comes before b
CompareCards(a, b) ==
  IF SuitOrder(a) # SuitOrder(b) THEN SuitOrder(a) - SuitOrder(b)
  ELSE Value(b) - Value(a)

RECURSIVE InsertSorted(_, _)
InsertSorted(sorted, c) ==
  IF sorted = << >> THEN <<c>>
  ELSE IF CompareCards(c, Head(sorted)) < 0 THEN <<c>> \o sorted
       ELSE <<Head(sorted)>> \o InsertSorted(Tail(sorted), c)

RECURSIVE sortHand(_)
sortHand(hand) ==
  IF hand = << >> THEN << >>
  ELSE InsertSorted(sortHand(SubSeq(hand, 1, Len(hand) - 1)), hand[Len(hand)])

(***************************************************************************)
(* Scoring (gameEngine.js).                                                *)
(***************************************************************************)
Max(a, b) == IF a > b THEN a ELSE b

calculateRoundScoreNoBonus(bid, tricksWon, isNil) ==
  IF isNil
  THEN [roundScore |-> IF tricksWon = 0 THEN 100 ELSE -100, overtricks |-> 0]
  ELSE IF bid = 0
       THEN [roundScore |-> tricksWon, overtricks |-> tricksWon]
       ELSE IF tricksWon >= bid
            THEN [roundScore |-> bid * 10, overtricks |-> tricksWon - bid]
            ELSE [roundScore |-> -(bid * 10), overtricks |-> 0]

calculateRoundScore(bid, tricksWon, isNil) ==
  IF isNil
  THEN [roundScore |-> IF tricksWon = 0 THEN 100 ELSE -100, overtricks |-> 0]
  ELSE IF bid = 0
       THEN [roundScore |-> tricksWon, overtricks |-> tricksWon]
       ELSE IF tricksWon >= bid
            THEN [roundScore |-> (bid * 10) + (tricksWon - bid),
                  overtricks |-> tricksWon - bid]
            ELSE [roundScore |-> -(bid * 10), overtricks |-> 0]

\* Math.floor(low / 10) * 10 + 5, moved up by 10 when it is not above low.
FirstX5(low) ==
  LET x == (low \div 10) * 10 + 5
  IN IF x <= low THEN x + 10 ELSE x

applyDenominatorPenalty(previousScore, newScore) ==
  IF previousScore = newScore
  THEN [newTotal |-> newScore, penaltyApplied |-> FALSE]
  ELSE LET low == Min(previousScore, newScore)
           high == Max(previousScore, newScore)
       IN IF FirstX5(low) <= high
          THEN [newTotal |-> newScore - 55, penaltyApplied |-> TRUE]
          ELSE [newTotal |-> newScore, penaltyApplied |-> FALSE]

(***************************************************************************)
(* The state.                                                              *)
(***************************************************************************)
VARIABLES
  room,       \* the entry of the rooms table (roomManager.js), or NoRoom
  gs,         \* room.gameState, or NoGame
  timers,     \* pending setTimeout callbacks, by kind
  roomLocks,  \* the codes locked in the roomLocks map
  lockHeld,   \* whether the last transition ran between acquire and release
  emitted,    \* the messages the last transition emitted
  shown,      \* players sent a non-empty hand in the nil prompt of this round
  roomEver,   \* a room code has been issued
  crashed,    \* a handler threw: the server process has stopped
  calc        \* a call of a function of gameEngine.js: arguments and result

vars == <<room, gs, timers, roomLocks, lockHeld, emitted, shown, roomEver, crashed, calc>>

RoomCode == "ROOM"

\* the keys setGameMode, updateTeams and createRoom give to room.teams
TeamNames == <<"Team 1", "Team 2">>
TeamNameSet == {TeamNames[i] : i \in 1..Len(TeamNames)}
GameModes == {"individual", "teams"}

\* room.teams is a sequence of [name, members] in the key order of the
\* object; the empty sequence stands for null
NoTeams == << >>
EmptyTeams(numTeams) == [i \in 1..numTeams |-> [name |-> TeamNames[i], members |-> << >>]]

NoRoom ==
  [exists |-> FALSE, hostId |-> 0, players |-> << >>, started |-> FALSE,
   gameMode |-> "individual", teams |-> NoTeams]

NoWinner == [name |-> NoName, score |-> 0, type |-> "none"]

NoGame ==
  [exists |-> FALSE, currentRound |-> 0, phase |-> "none", playerOrder |-> << >>,
   currentPlayerIndex |-> 0, hands |-> [p \in Names |-> << >>],
   bids |-> [p \in Names |-> NoBid], nilBids |-> [p \in Names |-> "undecided"],
   tricksWon |-> [p \in Names |-> 0], currentTrick |-> << >>, trickNumber |-> 0,
   ledSuit |-> "none", spadesBroken |-> FALSE, dealerIndex |-> 0,
   biddingStartIndex |-> 0, firstLeadIndex |-> 0, lastTrickWinner |-> NoName,
   gameOver |-> FALSE, gameMode |-> "individual", teams |-> NoTeams,
   teamsShared |-> FALSE,   \* gs.teams is the very object room.teams
   scores |-> [p \in Names |-> 0], roundHistory |-> [p \in Names |-> << >>],
   teamScores |-> [t \in TeamNameSet |-> 0],
   teamRoundHistory |-> [t \in TeamNameSet |-> << >>], winner |-> NoWinner]

TimerKinds == {"trick", "round", "nextTrick", "skip"}

\* no call of an engine function is being looked at
NoResult == [none |-> TRUE]
NoCalc == [op |-> "none", result |-> NoResult]

PlayerIdx(r) == 1..Len(r.players)
PlayerIds(r) == {r.players[k].id : k \in PlayerIdx(r)}
PlayerNames(r) == {r.players[k].name : k \in PlayerIdx(r)}
OrderNames(g) == {g.playerOrder[k] : k \in 1..Len(g.playerOrder)}

\* the sockets that can send an event: those of the connected entries, and
\* the connection that is not in the room
Senders(r) ==
  {r.players[k].id : k \in {m \in PlayerIdx(r) : r.players[m].connected}}
    \cup {Stranger}

\* the number of disconnected entries
Down(r) == Cardinality({k \in PlayerIdx(r) : ~r.players[k].connected})

\* the clients that can ask to join: those with no connected entry
Joiners(r) ==
  {p \in Names : \A k \in PlayerIdx(r) : r.players[k].name = p => ~r.players[k].connected}

(***************************************************************************)
(* roomManager.js                                                          *)
(***************************************************************************)
\* room.players.find(p => p.id === playerId): its index, 0 when absent
FindById(r, id) ==
  IF \E k \in PlayerIdx(r) : r.players[k].id = id
  THEN CHOOSE k \in PlayerIdx(r) :
         r.players[k].id = id /\ \A m \in 1..(k - 1) : r.players[m].id # id
  ELSE 0

FindByName(r, name) ==
  IF \E k \in PlayerIdx(r) : r.players[k].name = name
  THEN CHOOSE k \in PlayerIdx(r) :
         r.players[k].name = name /\ \A m \in 1..(k - 1) : r.players[m].name # name
  ELSE 0

getPlayerName(r, id) ==
  IF FindById(r, id) = 0 THEN NoName ELSE r.players[FindById(r, id)].name

createRoom(hostId, hostName, gameMode) ==
  [exists |-> TRUE, hostId |-> hostId,
   players |-> <<[id |-> hostId, name |-> hostName, ready |-> FALSE, connected |-> TRUE]>>,
   started |-> FALSE, gameMode |-> gameMode,
   teams |-> IF gameMode = "teams" THEN EmptyTeams(2) ELSE NoTeams]

\* joinRoom without the two checks of the lobby
joinRoomErrorOpenLobby(r, playerId, playerName) ==
  IF ~r.exists THEN "Room not found"
  ELSE IF r.started
       THEN IF FindByName(r, playerName) # 0 THEN "" ELSE "Game already started"
  ELSE ""

\* the error of joinRoom, "" when it succeeds
joinRoomError(r, playerId, playerName) ==
  IF ~r.exists THEN "Room not found"
  ELSE IF r.started
       THEN IF FindByName(r, playerName) # 0 THEN "" ELSE "Game already started"
  ELSE IF Len(r.players) >= MaxPlayers THEN "Room is full (max 8 players)"
  ELSE IF playerName \in PlayerNames(r) THEN "Name already taken"
  ELSE ""

\* joinRoom without the update of the hostId
joinRoomKeepsHost(r, playerId, playerName) ==
  IF r.started
  THEN LET k == FindByName(r, playerName)
       IN [r EXCEPT !.players[k].id = playerId,
                    !.players[k].connected = TRUE]
  ELSE [r EXCEPT !.players = Append(@,
          [id |-> playerId, name |-> playerName, ready |-> FALSE, connected |-> TRUE])]

\* the room after a joinRoom that succeeds
joinRoom(r, playerId, playerName) ==
  IF r.started
  THEN LET k == FindByName(r, playerName)
           oldId == r.players[k].id
       IN [r EXCEPT !.players[k].id = playerId,
                    !.players[k].connected = TRUE,
                    !.hostId = IF r.hostId = oldId THEN playerId ELSE @]
  ELSE [r EXCEPT !.players = Append(@,
          [id |-> playerId, name |-> playerName, ready |-> FALSE, connected |-> TRUE])]

RemoveById(players, id) ==
  LET Keep(p) == p.id # id IN SelectSeq(players, Keep)

\* leaveRoom without the transfer of the host
leaveRoomKeepsHost(r, playerId) ==
  IF r.started
  THEN IF FindById(r, playerId) = 0 THEN r
       ELSE [r EXCEPT !.players[FindById(r, playerId)].connected = FALSE]
  ELSE LET left == RemoveById(r.players, playerId)
       IN IF Len(left) = 0 THEN NoRoom
          ELSE [r EXCEPT !.players = left]

\* the room after leaveRoom; NoRoom when the room was deleted
leaveRoom(r, playerId) ==
  IF r.started
  THEN IF FindById(r, playerId) = 0 THEN r
       ELSE [r EXCEPT !.players[FindById(r, playerId)].connected = FALSE]
  ELSE LET left == RemoveById(r.players, playerId)
       IN IF Len(left) = 0 THEN NoRoom
          ELSE [r EXCEPT !.players = left,
                         !.hostId = IF r.hostId = playerId THEN left[1].id ELSE @]

toggleReady(r, playerId) ==
  IF FindById(r, playerId) = 0 THEN r
  ELSE [r EXCEPT !.players[FindById(r, playerId)].ready = ~@]

\* Math.floor(room.players.length / 2) || 1 teams, or null
setGameMode(r, gameMode) ==
  IF ~r.exists THEN r
  ELSE [r EXCEPT !.gameMode = gameMode,
                 !.teams = IF gameMode = "teams"
                           THEN EmptyTeams(Max(Len(r.players) \div 2, 1))
                           ELSE NoTeams]

TeamIdx(teams) == 1..Len(teams)
TeamMembers(teams, i) == {teams[i].members[k] : k \in 1..Len(teams[i].members)}

\* the name leaves every team and is pushed on teamName when it is a key
assignTeam(r, playerName, teamName) ==
  IF ~r.exists \/ r.teams = NoTeams THEN r
  ELSE LET Other(n) == n # playerName
       IN [r EXCEPT !.teams =
             [i \in TeamIdx(r.teams) |->
                [r.teams[i] EXCEPT !.members =
                   IF r.teams[i].name = teamName
                   THEN Append(SelectSeq(@, Other), playerName)
                   ELSE SelectSeq(@, Other)]]]

updateTeams(r, numTeams) ==
  IF ~r.exists THEN r ELSE [r EXCEPT !.teams = EmptyTeams(numTeams)]

\* canStart without the check of the even number of players
canStartAnyCount(r) ==
  /\ r.exists
  /\ Len(r.players) >= MinPlayers
  /\ \A k \in PlayerIdx(r) : r.players[k].ready
  /\ r.gameMode = "teams" =>
       /\ \A k \in PlayerIdx(r) :
            \E i \in TeamIdx(r.teams) : r.players[k].name \in TeamMembers(r.teams, i)
       /\ \A i \in TeamIdx(r.teams) : Len(r.teams[i].members) # 0

canStart(r) ==
  /\ r.exists
  /\ Len(r.players) >= MinPlayers
  /\ \A k \in PlayerIdx(r) : r.players[k].ready
  /\ r.gameMode = "teams" =>
       /\ \A k \in PlayerIdx(r) :
            \E i \in TeamIdx(r.teams) : r.players[k].name \in TeamMembers(r.teams, i)
       /\ Len(r.players) % 2 = 0
       /\ \A i \in TeamIdx(r.teams) : Len(r.teams[i].members) # 0

resetRoom(r) ==
  [r EXCEPT !.started = FALSE,
            !.players = [k \in PlayerIdx(r) |-> [r.players[k] EXCEPT !.ready = FALSE]]]

\* the room after removePlayerFromGame; NoRoom when the room was deleted
removePlayerFromGameRoom(r, playerId) ==
  IF FindById(r, playerId) = 0 THEN r
  ELSE LET left == RemoveById(r.players, playerId)
       IN IF Len(left) = 0 THEN NoRoom
          ELSE [r EXCEPT !.players = left,
                         !.hostId = IF r.hostId = playerId THEN left[1].id ELSE @]

\* the game state after removePlayerFromGame
removePlayerFromGameState(r, g, playerId) ==
  IF FindById(r, playerId) = 0 \/ ~g.exists THEN g
  ELSE IF Len(RemoveById(r.players, playerId)) = 0 THEN NoGame
  ELSE LET playerName == getPlayerName(r, playerId)
           idx == IndexOf(g.playerOrder, playerName)
           order == IF idx # -1 THEN RemoveAt(g.playerOrder, idx + 1) ELSE g.playerOrder
       IN [g EXCEPT !.playerOrder = order,
                    !.currentPlayerIndex = IF @ >= Len(order) THEN 0 ELSE @]


(***************************************************************************)
(* gameEngine.js: the game state                                           *)
(***************************************************************************)
createGameState(players, gameMode, teams) ==
  [NoGame EXCEPT !.exists = TRUE, !.currentRound = 1, !.phase = "nil-prompt",
                 !.playerOrder = players, !.gameMode = gameMode, !.teams = teams,
                 !.teamsShared = teams # NoTeams]

startRoundNilFromLast(g, seed) ==
  LET round == g.currentRound
      players == g.playerOrder
      n == Len(players)
      dealerIndex == (round - 1) % n
      afterDealer == (dealerIndex + 1) % n
      dealt == deal(players, round, seed)
      firstLeadIndex ==
        IF g.lastTrickWinner # NoName /\ IndexOf(players, g.lastTrickWinner) # -1
        THEN IndexOf(players, g.lastTrickWinner)
        ELSE afterDealer
  IN [g EXCEPT
        !.hands = [p \in Names |-> IF p \in DOMAIN dealt THEN dealt[p] ELSE << >>],
        !.bids = [p \in Names |-> NoBid],
        !.nilBids = [p \in Names |-> "undecided"],
        !.tricksWon = [p \in Names |-> 0],
        !.currentTrick = << >>,
        !.trickNumber = 0,
        !.ledSuit = "none",
        !.spadesBroken = FALSE,
        !.dealerIndex = dealerIndex,
        !.biddingStartIndex = afterDealer,
        !.currentPlayerIndex = afterDealer,
        !.firstLeadIndex = firstLeadIndex,
        !.phase = IF round > NilRound THEN "nil-prompt" ELSE "bidding"]

startRound(g, seed) ==
  LET round == g.currentRound
      players == g.playerOrder
      n == Len(players)
      dealerIndex == (round - 1) % n
      afterDealer == (dealerIndex + 1) % n
      dealt == deal(players, round, seed)
      firstLeadIndex ==
        IF g.lastTrickWinner # NoName /\ IndexOf(players, g.lastTrickWinner) # -1
        THEN IndexOf(players, g.lastTrickWinner)
        ELSE afterDealer
  IN [g EXCEPT
        !.hands = [p \in Names |-> IF p \in DOMAIN dealt THEN dealt[p] ELSE << >>],
        !.bids = [p \in Names |-> NoBid],
        !.nilBids = [p \in Names |-> "undecided"],
        !.tricksWon = [p \in Names |-> 0],
        !.currentTrick = << >>,
        !.trickNumber = 0,
        !.ledSuit = "none",
        !.spadesBroken = FALSE,
        !.dealerIndex = dealerIndex,
        !.biddingStartIndex = afterDealer,
        !.currentPlayerIndex = afterDealer,
        !.firstLeadIndex = firstLeadIndex,
        !.phase = IF round >= NilRound THEN "nil-prompt" ELSE "bidding"]

\* playerOrder[currentPlayerIndex]; NoName stands for undefined
getCurrentPlayer(g) ==
  IF g.currentPlayerIndex >= 0 /\ g.currentPlayerIndex < Len(g.playerOrder)
  THEN g.playerOrder[g.currentPlayerIndex + 1]
  ELSE NoName

(***************************************************************************)
(* index.js: helpers                                                       *)
(***************************************************************************)
Msg(type, to) ==
  [type |-> type, to |-> to, hand |-> << >>, otherHandCounts |-> << >>, myName |-> NoName]

\* io.to(roomCode): the channel of the room is written as socket 0
RoomChannel == 0

broadcastRoomState(r) == IF r.exists THEN {Msg("room-update", RoomChannel)} ELSE {}

\* a snapshot that carries the cards during the nil prompt as well
SnapshotHandAlways(g, playerName) == sortHand(g.hands[playerName])

\* the hand broadcastGameState puts in the snapshot of playerName
SnapshotHand(g, playerName) ==
  IF g.phase = "nil-prompt" /\ g.nilBids[playerName] = "undecided"
  THEN << >>
  ELSE sortHand(g.hands[playerName])

broadcastGameState(r, g) ==
  IF ~r.exists \/ ~g.exists THEN {}
  ELSE {[type |-> "game-state", to |-> r.players[k].id,
         hand |-> SnapshotHand(g, r.players[k].name),
         otherHandCounts |-> [p \in OrderNames(g) \ {r.players[k].name} |-> Len(g.hands[p])],
         myName |-> r.players[k].name] :
          k \in {m \in PlayerIdx(r) : r.players[m].connected}}

\* the players whose snapshot in the nil prompt carried cards
ShownBy(r, g) ==
  IF ~r.exists \/ ~g.exists \/ g.phase # "nil-prompt" THEN {}
  ELSE {r.players[k].name : k \in {m \in PlayerIdx(r) :
          r.players[m].connected /\ SnapshotHand(g, r.players[m].name) # << >>}}

advancePlayer(g) ==
  [g EXCEPT !.currentPlayerIndex = (@ + 1) % Len(g.playerOrder)]

\* the bidding loops: the first index from `start` (at most n steps) whose
\* player is in stopAt
RECURSIVE SkipLoop(_, _, _, _)
SkipLoop(g, idx, safety, stopAt) ==
  IF safety >= Len(g.playerOrder) THEN idx
  ELSE IF idx >= Len(g.playerOrder) THEN idx
  ELSE IF g.playerOrder[idx + 1] \in stopAt THEN idx
  ELSE SkipLoop(g, (idx + 1) % Len(g.playerOrder), safety + 1, stopAt)

\* nil-decision and the nil-prompt branch of handleDisconnectedTurn: once
\* everybody decided, bidding starts at the first player who is not nil
afterNilDecisions(g) ==
  IF \A p \in OrderNames(g) : g.nilBids[p] \in {"yes", "no"}
  THEN LET NotNil == {p \in Names : g.nilBids[p] # "yes"}
       IN [g EXCEPT !.phase = "bidding",
                    !.currentPlayerIndex = SkipLoop(g, g.biddingStartIndex, 0, NotNil)]
  ELSE g

\* place-bid and the bidding branch of handleDisconnectedTurn, after the bid
\* was recorded
afterBid(g) ==
  LET NoBidYet == {p \in Names : g.bids[p] = NoBid}
      next == SkipLoop(g, (g.currentPlayerIndex + 1) % Len(g.playerOrder), 0, NoBidYet)
      allBid == \A p \in OrderNames(g) : g.nilBids[p] = "yes" \/ g.bids[p] # NoBid
  IN IF allBid
     THEN [g EXCEPT !.phase = "playing", !.currentTrick = << >>, !.trickNumber = 0,
                    !.currentPlayerIndex = g.firstLeadIndex]
     ELSE [g EXCEPT !.currentPlayerIndex = next]

\* the card leaves the hand and enters the trick (play-card and auto-play)
putCard(g, playerName, card) ==
  LET isLeading == Len(g.currentTrick) = 0
      hand == g.hands[playerName]
  IN [g EXCEPT !.ledSuit = IF isLeading THEN Suit(card) ELSE @,
               !.spadesBroken = IF Suit(card) = "spades" THEN TRUE ELSE @,
               !.hands[playerName] = RemoveAt(hand, IndexOf(hand, card) + 1),
               !.currentTrick = Append(@, [playerId |-> playerName, card |-> card])]

TrickLedSuit(g) == IF Len(g.currentTrick) = 0 THEN "none" ELSE Suit(g.currentTrick[1].card)

\* the first card of the hand that isValidPlay accepts, hand[0] by default
FirstValidCard(g, hand) ==
  LET isLeading == Len(g.currentTrick) = 0
      ok == {k \in 1..Len(hand) : isValidPlay(hand[k], hand, TrickLedSuit(g), g.spadesBroken, isLeading)}
  IN IF ok = {} THEN hand[1]
     ELSE hand[CHOOSE k \in ok : \A m \in ok : k <= m]

Schedule(t, kind) == [t EXCEPT ![kind] = @ + 1]
Fire(t, kind) == [t EXCEPT ![kind] = @ - 1]
CanSchedule(t, kind) == t[kind] < MaxPending


(***************************************************************************)
(* The inputs of the client events.                                        *)
(***************************************************************************)
\* a client clicks one of its first playable cards, or its first card that
\* is not playable, or sends an id it does not hold
CardInputs(r, g, s) ==
  LET playerName == getPlayerName(r, s)
      hand == g.hands[playerName]
      isLeading == Len(g.currentTrick) = 0
      legal == {k \in 1..Len(hand) : isValidPlay(hand[k], hand, TrickLedSuit(g), g.spadesBroken, isLeading)}
      illegal == (1..Len(hand)) \ legal
      firstLegal == {k \in legal : Cardinality({m \in legal : m < k}) < MaxChoice}
      firstIllegal == {k \in illegal : \A m \in illegal : k <= m}
  IN IF playerName = NoName \/ ~g.exists THEN {-1}
     ELSE {hand[k] : k \in firstLegal \cup firstIllegal} \cup {-1}

\* a client bids 1, a number below 0, a number above the round, or null
BidInputs(g) == {-1, 1, g.currentRound + 1, NullBid}

(***************************************************************************)
(* Init                                                                    *)
(***************************************************************************)
Init ==
  /\ room = NoRoom
  /\ gs = NoGame
  /\ timers = [k \in TimerKinds |-> 0]
  /\ roomLocks = {}
  /\ lockHeld = FALSE
  /\ emitted = {}
  /\ shown = {}
  /\ roomEver = FALSE
  /\ crashed = FALSE
  /\ calc = NoCalc

ShownNext(old, r, g) ==
  IF g.phase = "nil-prompt" THEN old \cup ShownBy(r, g) ELSE {}

\* a handler that returns at a guard: nothing changes, nothing is emitted
Silent ==
  /\ emitted' = {}
  /\ lockHeld' = FALSE
  /\ UNCHANGED <<room, gs, timers, roomLocks, shown, roomEver, crashed, calc>>

(***************************************************************************)
(* index.js: room events                                                   *)
(***************************************************************************)
CreateRoom(s, playerName, gameMode) ==
  /\ ~room.exists
  /\ ~roomEver
  /\ room' = createRoom(s, playerName, gameMode)
  /\ roomEver' = TRUE
  /\ UNCHANGED <<crashed, calc>>
  /\ emitted' = broadcastRoomState(room')
  /\ lockHeld' = FALSE
  /\ UNCHANGED <<gs, timers, roomLocks, shown>>

JoinRoom(s, playerName) ==
  IF joinRoomError(room, s, playerName) # ""
  THEN Silent
  ELSE /\ room' = joinRoom(room, s, playerName)
       /\ emitted' = (IF room.started THEN broadcastGameState(room', gs) ELSE {})
                       \cup broadcastRoomState(room')
       /\ shown' = IF room.started THEN ShownNext(shown, room', gs) ELSE shown
       /\ lockHeld' = FALSE
       /\ UNCHANGED <<gs, timers, roomLocks, roomEver, crashed, calc>>

ToggleReady(s) ==
  /\ room' = IF room.exists THEN toggleReady(room, s) ELSE room
  /\ emitted' = broadcastRoomState(room')
  /\ lockHeld' = FALSE
  /\ UNCHANGED <<gs, timers, roomLocks, shown, roomEver, crashed, calc>>

\* set-game-mode: the handler does not look at the sender; room.teams
\* becomes a new object, and a running game keeps the old one
SetGameMode(s, gameMode) ==
  /\ room' = setGameMode(room, gameMode)
  /\ gs' = IF room.exists /\ gs.exists THEN [gs EXCEPT !.teamsShared = FALSE] ELSE gs
  /\ emitted' = broadcastRoomState(room')
  /\ lockHeld' = FALSE
  /\ UNCHANGED <<timers, roomLocks, shown, roomEver, crashed, calc>>

\* assign-team: the handler does not look at the sender; the member lists
\* are replaced inside the object room.teams, which a running game that was
\* created with it reads too
AssignTeam(s, playerName, teamName) ==
  /\ room' = assignTeam(room, playerName, teamName)
  /\ gs' = IF gs.exists /\ gs.teamsShared THEN [gs EXCEPT !.teams = room'.teams] ELSE gs
  /\ emitted' = broadcastRoomState(room')
  /\ lockHeld' = FALSE
  /\ UNCHANGED <<timers, roomLocks, shown, roomEver, crashed, calc>>

\* update-teams: the handler does not look at the sender
UpdateTeams(s, numTeams) ==
  /\ room' = updateTeams(room, numTeams)
  /\ gs' = IF room.exists /\ gs.exists THEN [gs EXCEPT !.teamsShared = FALSE] ELSE gs
  /\ emitted' = broadcastRoomState(room')
  /\ lockHeld' = FALSE
  /\ UNCHANGED <<timers, roomLocks, shown, roomEver, crashed, calc>>

StartGame(s, seed) ==
  IF room.exists /\ room.hostId = s /\ canStart(room)
  THEN /\ CanSchedule(timers, "skip")
       /\ room' = [room EXCEPT !.started = TRUE]
       /\ gs' = startRound(createGameState([k \in PlayerIdx(room) |-> room.players[k].name],
                                           room.gameMode, room.teams),
                           seed)
       /\ emitted' = broadcastRoomState(room') \cup broadcastGameState(room', gs')
       /\ shown' = ShownNext({}, room', gs')
       /\ timers' = Schedule(timers, "skip")
       /\ lockHeld' = FALSE
       /\ UNCHANGED <<roomLocks, roomEver, crashed, calc>>
  ELSE Silent

(***************************************************************************)
(* index.js: game events                                                   *)
(***************************************************************************)
NilDecision(s, goNil) ==
  IF room.exists /\ gs.exists /\ getPlayerName(room, s) # NoName
     /\ gs.phase = "nil-prompt"
  THEN LET playerName == getPlayerName(room, s)
           decided == [gs EXCEPT !.nilBids[playerName] = IF goNil THEN "yes" ELSE "no",
                                 !.bids[playerName] = IF goNil THEN 0 ELSE @]
       IN /\ CanSchedule(timers, "skip")
          /\ gs' = afterNilDecisions(decided)
          /\ emitted' = broadcastGameState(room, gs')
          /\ shown' = ShownNext(shown, room, gs')
          /\ timers' = Schedule(timers, "skip")
          /\ lockHeld' = FALSE
          /\ UNCHANGED <<room, roomLocks, roomEver, crashed, calc>>
  ELSE Silent

\* bid < 0 || bid > gs.currentRound; the comparisons convert null to 0
bidRejected(bid, currentRound) ==
  IF bid = NullBid THEN 0 < 0 \/ 0 > currentRound
  ELSE bid < 0 \/ bid > currentRound

PlaceBid(s, bid) ==
  IF room.exists /\ gs.exists /\ getPlayerName(room, s) # NoName
     /\ gs.phase = "bidding"
     /\ gs.nilBids[getPlayerName(room, s)] # "yes"
     /\ getCurrentPlayer(gs) = getPlayerName(room, s)
     /\ ~bidRejected(bid, gs.currentRound)
  THEN LET playerName == getPlayerName(room, s)
       IN /\ CanSchedule(timers, "skip")
          /\ gs' = afterBid([gs EXCEPT !.bids[playerName] = bid])
          /\ emitted' = broadcastGameState(room, gs')
          /\ shown' = ShownNext(shown, room, gs')
          /\ timers' = Schedule(timers, "skip")
          /\ lockHeld' = FALSE
          /\ UNCHANGED <<room, roomLocks, roomEver, crashed, calc>>
  ELSE Silent

\* the checks of play-card without the check of the turn
PlayCardReachesAnyTurn(s, cardId) ==
  /\ room.exists /\ gs.exists
  /\ getPlayerName(room, s) # NoName
  /\ gs.phase = "playing"
  /\ IndexOf(gs.hands[getPlayerName(room, s)], cardId) # -1

\* the checks of play-card before isValidPlay
PlayCardReaches(s, cardId) ==
  /\ room.exists /\ gs.exists
  /\ getPlayerName(room, s) # NoName
  /\ gs.phase = "playing"
  /\ getCurrentPlayer(gs) = getPlayerName(room, s)
  /\ IndexOf(gs.hands[getPlayerName(room, s)], cardId) # -1

PlayCard(s, cardId) ==
  IF RoomCode \in roomLocks
  THEN Silent
  ELSE \* acquireRoomLock ... finally releaseRoomLock
    /\ roomLocks' = (roomLocks \cup {RoomCode}) \ {RoomCode}
    /\ lockHeld' = TRUE
    /\ UNCHANGED <<room, roomEver, crashed, calc>>
    /\ IF ~PlayCardReaches(s, cardId)
       THEN /\ emitted' = {}
            /\ UNCHANGED <<gs, timers, shown>>
       ELSE LET playerName == getPlayerName(room, s)
                hand == gs.hands[playerName]
                isLeading == Len(gs.currentTrick) = 0
                played == putCard(gs, playerName, cardId)
            IN IF ~isValidPlay(cardId, hand, TrickLedSuit(gs), gs.spadesBroken, isLeading)
               THEN /\ emitted' = {Msg("invalid-play", s)}
                    /\ UNCHANGED <<gs, timers, shown>>
               ELSE IF Len(played.currentTrick) = Len(played.playerOrder)
               THEN /\ CanSchedule(timers, "trick")
                    /\ gs' = played
                    /\ emitted' = broadcastGameState(room, gs')
                    /\ timers' = Schedule(timers, "trick")
                    /\ shown' = ShownNext(shown, room, gs')
               ELSE /\ gs' = advancePlayer(played)
                    /\ emitted' = broadcastGameState(room, gs')
                    /\ shown' = ShownNext(shown, room, gs')
                    /\ UNCHANGED timers

NextRound(s, seed) ==
  IF room.exists /\ gs.exists /\ room.hostId = s /\ gs.phase = "round-end"
  THEN /\ CanSchedule(timers, "skip")
       /\ gs' = startRound(gs, seed)
       /\ emitted' = broadcastGameState(room, gs')
       /\ shown' = ShownNext({}, room, gs')
       /\ timers' = Schedule(timers, "skip")
       /\ lockHeld' = FALSE
       /\ UNCHANGED <<room, roomLocks, roomEver, crashed, calc>>
  ELSE Silent

\* restart-game without the check of the host
RestartGameAnySender(s) ==
  IF ~room.exists
  THEN Silent
  ELSE /\ room' = resetRoom(room)
       /\ gs' = NoGame
       /\ emitted' = {Msg("game-reset", RoomChannel)}
                       \cup broadcastRoomState(room')
       /\ shown' = {}
       /\ lockHeld' = FALSE
       /\ UNCHANGED <<timers, roomLocks, roomEver, crashed, calc>>

RestartGame(s) ==
  IF ~room.exists \/ room.hostId # s
  THEN Silent
  ELSE /\ room' = resetRoom(room)
       /\ gs' = NoGame
       /\ emitted' = {Msg("game-reset", RoomChannel)}
                       \cup broadcastRoomState(room')
       /\ shown' = {}
       /\ lockHeld' = FALSE
       /\ UNCHANGED <<timers, roomLocks, roomEver, crashed, calc>>

EndGame(s) ==
  IF ~room.exists \/ room.hostId # s
  THEN Silent
  ELSE /\ room' = NoRoom
       /\ gs' = NoGame
       /\ emitted' = {Msg("game-ended", RoomChannel)}
       /\ shown' = {}
       /\ lockHeld' = FALSE
       /\ UNCHANGED <<timers, roomLocks, roomEver, crashed, calc>>

LeaveGame(s) ==
  IF ~room.exists
  THEN Silent
  ELSE /\ room' = removePlayerFromGameRoom(room, s)
       /\ gs' = removePlayerFromGameState(room, gs, s)
       /\ emitted' = broadcastRoomState(room')
                       \cup broadcastGameState(room', gs')
       /\ shown' = ShownNext(shown, room', gs')
       /\ lockHeld' = FALSE
       /\ UNCHANGED <<timers, roomLocks, roomEver, crashed, calc>>

\* socket.on('disconnect') of a socket that is in the room
Disconnect(s) ==
  /\ room.exists
  /\ FindById(room, s) # 0
  /\ room.players[FindById(room, s)].connected
  /\ room' = leaveRoom(room, s)
  /\ gs' = IF room'.exists THEN gs ELSE NoGame
  /\ emitted' = broadcastRoomState(room') \cup broadcastGameState(room', gs')
  /\ shown' = ShownNext(shown, room', gs')
  /\ IF room'.exists /\ gs'.exists
     THEN CanSchedule(timers, "skip") /\ timers' = Schedule(timers, "skip")
     ELSE UNCHANGED timers
  /\ lockHeld' = FALSE
  /\ UNCHANGED <<roomLocks, roomEver, crashed, calc>>


(***************************************************************************)
(* index.js: the setTimeout callbacks                                      *)
(***************************************************************************)
\* a callback that returns at a guard
Lapsed(kind) ==
  /\ timers' = Fire(timers, kind)
  /\ emitted' = {}
  /\ lockHeld' = FALSE
  /\ UNCHANGED <<room, gs, roomLocks, shown, roomEver, crashed, calc>>

\* the game state processEndOfTrick leaves
processEndOfTrick(g) ==
  LET result == determineTrickWinner(g.currentTrick, Suit(g.currentTrick[1].card))
      winnerId == result.winnerId
      counted == [g EXCEPT
                    !.tricksWon[winnerId] = @ + 1,
                    !.spadesBroken =
                       IF \E k \in 1..Len(g.currentTrick) :
                            Suit(g.currentTrick[k].card) = "spades"
                       THEN TRUE ELSE @,
                    !.trickNumber = @ + 1,
                    !.lastTrickWinner = winnerId]
  IN IF counted.trickNumber >= counted.currentRound
     THEN counted
     ELSE [counted EXCEPT !.currentTrick = << >>,
                          !.ledSuit = "none",
                          !.currentPlayerIndex = IndexOf(g.playerOrder, winnerId)]

TimerTrick ==
  /\ timers["trick"] > 0
  /\ IF ~room.exists \/ ~gs.exists \/ Len(gs.currentTrick) = 0
     THEN Lapsed("trick")
     ELSE LET after == processEndOfTrick(gs)
              next == IF after.trickNumber >= after.currentRound THEN "round" ELSE "nextTrick"
          IN /\ CanSchedule(timers, next)
             /\ gs' = after
             /\ timers' = Schedule(Fire(timers, "trick"), next)
             /\ emitted' = {Msg("trick-result", RoomChannel)}
             /\ lockHeld' = FALSE
             /\ UNCHANGED <<room, roomLocks, shown, roomEver, crashed, calc>>

\* the 1500 ms callback of processEndOfTrick
TimerNextTrick ==
  /\ timers["nextTrick"] > 0
  /\ CanSchedule(timers, "skip")
  /\ timers' = Schedule(Fire(timers, "nextTrick"), "skip")
  /\ emitted' = broadcastGameState(room, gs)
  /\ shown' = ShownNext(shown, room, gs)
  /\ lockHeld' = FALSE
  /\ UNCHANGED <<room, gs, roomLocks, roomEver, crashed, calc>>

\* gs.bids[playerName] || 0
BidOrZero(g, playerName) ==
  IF g.bids[playerName] \in {NoBid, NullBid} THEN 0 ELSE g.bids[playerName]

IsNil(g, playerName) == g.nilBids[playerName] = "yes"

RECURSIVE SumOf(_, _)
SumOf(f, names) ==
  IF names = << >> THEN 0 ELSE f[Head(names)] + SumOf(f, Tail(names))

\* the individual branch of processEndOfRound: createGameState gives the
\* game state no overtrickBag, so gs.overtrickBag[playerName] throws a
\* TypeError for the first player of playerOrder
ScoringThrows(g) == g.gameMode = "individual" /\ Len(g.playerOrder) > 0

\* the team of playerName in gs.teams, 0 when it has none
TeamOf(g, playerName) ==
  IF \E i \in TeamIdx(g.teams) : playerName \in TeamMembers(g.teams, i)
  THEN CHOOSE i \in TeamIdx(g.teams) : playerName \in TeamMembers(g.teams, i)
  ELSE 0

\* the team branch, for the members of team i
NilMembers(g, i) == LET Nil(p) == IsNil(g, p) IN SelectSeq(g.teams[i].members, Nil)
NonNilMembers(g, i) == LET NotNil(p) == ~IsNil(g, p) IN SelectSeq(g.teams[i].members, NotNil)

teamBid(g, i) == SumOf([p \in Names |-> BidOrZero(g, p)], NonNilMembers(g, i))
teamTricks(g, i) == SumOf(g.tricksWon, NonNilMembers(g, i))
teamResult(g, i) == calculateRoundScore(teamBid(g, i), teamTricks(g, i), FALSE)

teamRoundScore(g, i) ==
  teamResult(g, i).roundScore
    + SumOf([p \in Names |-> calculateRoundScore(BidOrZero(g, p), g.tricksWon[p], TRUE).roundScore],
            NilMembers(g, i))

\* the call passes (total, bag, overtricks) to a function of (previousScore,
\* newScore): the total after the addition is the previous score, the bag
\* (0, there is no teamOvertrickBag) is the new score, the third argument is
\* dropped
teamPenaltyResult(g, i) ==
  applyDenominatorPenalty(g.teamScores[g.teams[i].name] + teamRoundScore(g, i), 0)

\* gs.scores after the team branch: the non-nil members get their own score
scoresAfter(g) ==
  [p \in Names |->
     IF TeamOf(g, p) # 0 /\ ~IsNil(g, p)
     THEN g.scores[p] + calculateRoundScore(BidOrZero(g, p), g.tricksWon[p], FALSE).roundScore
     ELSE g.scores[p]]

\* the row pushed on roundHistory[playerName] in the team branch
playerRow(g, playerName) ==
  IF IsNil(g, playerName)
  THEN [round |-> g.currentRound, bid |-> 0, tricks |-> g.tricksWon[playerName],
        isNil |-> TRUE,
        roundScore |-> calculateRoundScore(BidOrZero(g, playerName),
                                           g.tricksWon[playerName], TRUE).roundScore,
        totalAfter |-> g.scores[playerName], penaltyApplied |-> FALSE]
  ELSE [round |-> g.currentRound, bid |-> BidOrZero(g, playerName),
        tricks |-> g.tricksWon[playerName], isNil |-> FALSE,
        roundScore |-> calculateRoundScore(BidOrZero(g, playerName),
                                           g.tricksWon[playerName], FALSE).roundScore,
        totalAfter |-> scoresAfter(g)[playerName], penaltyApplied |-> FALSE]

\* the row pushed on teamRoundHistory[teamName]
teamRow(g, i) ==
  [round |-> g.currentRound, bid |-> teamBid(g, i), tricks |-> teamTricks(g, i),
   roundScore |-> teamRoundScore(g, i), overtricks |-> teamResult(g, i).overtricks,
   bagAfter |-> 0, totalAfter |-> teamPenaltyResult(g, i).newTotal,
   penaltyApplied |-> teamPenaltyResult(g, i).penaltyApplied]

TeamIndexOf(g, teamName) ==
  IF \E i \in TeamIdx(g.teams) : g.teams[i].name = teamName
  THEN CHOOSE i \in TeamIdx(g.teams) : g.teams[i].name = teamName
  ELSE 0

\* the game state after the scoring loops of the team branch
scoreTeams(g) ==
  [g EXCEPT
     !.scores = scoresAfter(g),
     !.roundHistory = [p \in Names |->
        IF TeamOf(g, p) # 0 THEN Append(g.roundHistory[p], playerRow(g, p))
        ELSE g.roundHistory[p]],
     !.teamScores = [t \in TeamNameSet |->
        IF TeamIndexOf(g, t) # 0 THEN teamPenaltyResult(g, TeamIndexOf(g, t)).newTotal
        ELSE g.teamScores[t]],
     !.teamRoundHistory = [t \in TeamNameSet |->
        IF TeamIndexOf(g, t) # 0 THEN Append(g.teamRoundHistory[t], teamRow(g, TeamIndexOf(g, t)))
        ELSE g.teamRoundHistory[t]]]

\* the loop over Object.entries(gs.teamScores): the first team with the
\* greatest score
teamWinner(g) ==
  LET i == CHOOSE k \in TeamIdx(g.teams) :
             /\ \A m \in TeamIdx(g.teams) : g.teamScores[g.teams[m].name] <= g.teamScores[g.teams[k].name]
             /\ \A m \in 1..(k - 1) : g.teamScores[g.teams[m].name] < g.teamScores[g.teams[k].name]
  IN [name |-> g.teams[i].name, score |-> g.teamScores[g.teams[i].name], type |-> "team"]

\* a scoring that ends the game with the first round of the nil prompt
processEndOfRoundEarly(g) ==
  LET scored == scoreTeams(g)
  IN IF scored.currentRound >= NilRound
     THEN [scored EXCEPT !.gameOver = TRUE, !.phase = "game-over",
                         !.winner = teamWinner(scored)]
     ELSE [scored EXCEPT !.currentRound = @ + 1, !.phase = "round-end"]

\* the game state processEndOfRound leaves when it does not throw
processEndOfRound(g) ==
  LET scored == scoreTeams(g)
  IN IF scored.currentRound >= LastRound
     THEN [scored EXCEPT !.gameOver = TRUE, !.phase = "game-over",
                         !.winner = teamWinner(scored)]
     ELSE [scored EXCEPT !.currentRound = @ + 1, !.phase = "round-end"]

\* an exception that no handler catches ends the process: the rooms, the
\* locks and the pending callbacks are gone
Crash ==
  /\ crashed' = TRUE
  /\ room' = NoRoom
  /\ gs' = NoGame
  /\ timers' = [k \in TimerKinds |-> 0]
  /\ roomLocks' = {}
  /\ emitted' = {}
  /\ shown' = {}
  /\ lockHeld' = FALSE
  /\ UNCHANGED <<roomEver, calc>>

\* processEndOfRound without its guard: reading gameState of no room throws
TimerRoundUnguarded ==
  /\ timers["round"] > 0
  /\ IF ~room.exists \/ ~gs.exists \/ ScoringThrows(gs)
     THEN Crash
     ELSE /\ gs' = processEndOfRound(gs)
          /\ timers' = Fire(timers, "round")
          /\ emitted' = {Msg("round-end", RoomChannel)} \cup broadcastGameState(room, gs')
          /\ shown' = ShownNext(shown, room, gs')
          /\ lockHeld' = FALSE
          /\ UNCHANGED <<room, roomLocks, roomEver, crashed, calc>>

TimerRound ==
  /\ timers["round"] > 0
  /\ IF ~room.exists \/ ~gs.exists
     THEN Lapsed("round")
     ELSE IF ScoringThrows(gs)
     THEN Crash
     ELSE /\ gs' = processEndOfRound(gs)
          /\ timers' = Fire(timers, "round")
          /\ emitted' = {Msg("round-end", RoomChannel)} \cup broadcastGameState(room, gs')
          /\ shown' = ShownNext(shown, room, gs')
          /\ lockHeld' = FALSE
          /\ UNCHANGED <<room, roomLocks, roomEver, crashed, calc>>

\* handleDisconnectedTurn acts: the current player is a disconnected entry
SkipApplies ==
  /\ room.exists /\ gs.exists
  /\ getCurrentPlayer(gs) # NoName
  /\ FindByName(room, getCurrentPlayer(gs)) # 0
  /\ ~room.players[FindByName(room, getCurrentPlayer(gs))].connected

\* the nil-prompt branch: every undecided disconnected player sees cards
autoNilDecisions(r, g) ==
  [g EXCEPT !.nilBids = [p \in Names |->
     IF /\ p \in OrderNames(g)
        /\ g.nilBids[p] = "undecided"
        /\ FindByName(r, p) # 0
        /\ ~r.players[FindByName(r, p)].connected
     THEN "no" ELSE g.nilBids[p]]]

\* handleDisconnectedTurn
TimerSkip ==
  /\ timers["skip"] > 0
  /\ IF ~SkipApplies
     THEN Lapsed("skip")
     ELSE LET currentPlayerName == getCurrentPlayer(gs)
              hand == gs.hands[currentPlayerName]
          IN IF gs.phase = "playing"
             THEN IF Len(hand) = 0
                  THEN Lapsed("skip")
                  ELSE LET played == putCard(gs, currentPlayerName, FirstValidCard(gs, hand))
                           full == Len(played.currentTrick) = Len(played.playerOrder)
                       IN /\ full => CanSchedule(timers, "trick")
                          /\ gs' = IF full THEN played ELSE advancePlayer(played)
                          /\ timers' = IF full THEN Schedule(Fire(timers, "skip"), "trick")
                                       ELSE timers
                          /\ emitted' = broadcastGameState(room, gs')
                          /\ shown' = ShownNext(shown, room, gs')
                          /\ lockHeld' = FALSE
                          /\ UNCHANGED <<room, roomLocks, roomEver, crashed, calc>>
             ELSE IF gs.phase = "bidding"
             THEN IF gs.nilBids[currentPlayerName] = "yes"
                  THEN Lapsed("skip")
                  ELSE /\ gs' = afterBid([gs EXCEPT !.bids[currentPlayerName] = 0])
                       /\ emitted' = broadcastGameState(room, gs')
                       /\ shown' = ShownNext(shown, room, gs')
                       /\ lockHeld' = FALSE
                       /\ UNCHANGED <<room, timers, roomLocks, roomEver, crashed, calc>>
             ELSE IF gs.phase = "nil-prompt"
             THEN /\ gs' = afterNilDecisions(autoNilDecisions(room, gs))
                  /\ emitted' = broadcastGameState(room, gs')
                  /\ shown' = ShownNext(shown, room, gs')
                  /\ lockHeld' = FALSE
                  /\ UNCHANGED <<room, timers, roomLocks, roomEver, crashed, calc>>
             ELSE Lapsed("skip")

(***************************************************************************)
(* The specification.  The first client creates the room, in either game   *)
(* mode, and the others join it; in the lobby of a room with teams the     *)
(* host puts the players that have no team yet, in the order of            *)
(* room.players, each in the team of their position.  The rounds before    *)
(* MaxRound are played straight through: the player whose turn it is bids  *)
(* 1 or plays its first playable card, and the host sends next-round at    *)
(* the end of the round.  In the lobby and from round MaxRound on, every   *)
(* client, and a socket that is not in the room, sends every event at any  *)
(* time (a client with no connected entry may join), except toggle-ready,  *)
(* which is sent in the lobby only, start-game, which is sent when no      *)
(* callback is pending, next-round, which is sent while currentRound <=    *)
(* MaxRound, and a bid of null, which only the last client sends.  The     *)
(* callbacks that are pending fire in any order.  The                      *)
(* acknowledgement callbacks of the events are not messages and are not in *)
(* `emitted`.                                                              *)
(***************************************************************************)
\* the first entry of room.players that is in no team, 0 when there is none
FirstUnassigned(r) ==
  LET free == {k \in PlayerIdx(r) :
                 \A i \in TeamIdx(r.teams) : r.players[k].name \notin TeamMembers(r.teams, i)}
  IN IF free = {} THEN 0 ELSE CHOOSE k \in free : \A m \in free : k <= m

\* the socket whose turn it is
OnTurn(s) == gs.exists /\ getPlayerName(room, s) # NoName
             /\ getCurrentPlayer(gs) = getPlayerName(room, s)

\* the socket of the player whose turn it is plays its first playable card
PlaysStraight(s, cardId) ==
  /\ gs.phase = "playing" /\ OnTurn(s)
  /\ Len(gs.currentTrick) < Len(gs.playerOrder)
  /\ gs.hands[getPlayerName(room, s)] # << >>
  /\ cardId = FirstValidCard(gs, gs.hands[getPlayerName(room, s)])

AnyEvent == ~gs.exists \/ gs.currentRound >= MaxRound

NoPending == \A k \in TimerKinds : timers[k] = 0

Next ==
  \/ \E gameMode \in GameModes : CreateRoom(SocketOf(AllNames[1]), AllNames[1], gameMode)
  \/ \E p \in Joiners(room) : AnyEvent /\ JoinRoom(SocketOf(p), p)
  \/ \E s \in Senders(room) : ~room.started /\ ToggleReady(s)
  \/ /\ room.exists /\ ~room.started /\ room.teams # NoTeams
     /\ FirstUnassigned(room) # 0
     /\ FirstUnassigned(room) <= Len(room.teams)
     /\ AssignTeam(room.hostId, room.players[FirstUnassigned(room)].name,
                   room.teams[FirstUnassigned(room)].name)
  \/ \E s \in Senders(room), seed \in Seeds : AnyEvent /\ NoPending /\ StartGame(s, seed)
  \/ \E s \in Senders(room), goNil \in BOOLEAN : AnyEvent /\ NilDecision(s, goNil)
  \/ \E s \in Senders(room), bid \in BidInputs(gs) :
        /\ AnyEvent \/ (gs.phase = "bidding" /\ OnTurn(s) /\ bid = 1)
        /\ bid = NullBid => s = SocketOf(AllNames[NumNames])
        /\ PlaceBid(s, bid)
  \/ \E s \in Senders(room) : \E cardId \in CardInputs(room, gs, s) :
        /\ AnyEvent \/ PlaysStraight(s, cardId)
        /\ PlayCard(s, cardId)
  \/ \E s \in Senders(room), seed \in Seeds :
        /\ gs.currentRound <= MaxRound
        /\ AnyEvent \/ (gs.phase = "round-end" /\ s = room.hostId)
        /\ NextRound(s, seed)
  \/ \E s \in Senders(room) : AnyEvent /\ RestartGame(s)
  \/ \E s \in Senders(room) : AnyEvent /\ EndGame(s)
  \/ \E s \in Senders(room) : AnyEvent /\ LeaveGame(s)
  \/ \E s \in Senders(room) : AnyEvent /\ Down(room) < MaxDown /\ Disconnect(s)
  \/ TimerTrick
  \/ TimerNextTrick
  \/ TimerRound
  \/ TimerSkip

Spec == Init /\ [][Next]_vars

(***************************************************************************)
(* A second specification, for the rounds with a nil prompt and the end of *)
(* the game.  The room is created in teams mode and each player is put in  *)
(* a team of its own (a room switched to individual mode stops at the end  *)
(* of round 1).  The rounds before NilRound are played straight through:   *)
(* every client is connected, ready once, bids 1 and plays its first       *)
(* playable card when it is its turn.  From NilRound on, the nil prompt    *)
(* and the bidding get every input, disconnects and reconnects included.   *)
(***************************************************************************)
InNilRounds == gs.exists /\ gs.currentRound >= NilRound

\* the bids sent: a negative one, 1, one above the round and, in the last
\* round, half the round
LateBidInputs(g) ==
  {-1, 1, g.currentRound + 1}
    \cup (IF g.currentRound = LastRound THEN {g.currentRound \div 2} ELSE {})

NextLate ==
  \/ CreateRoom(SocketOf(AllNames[1]), AllNames[1], "teams")
  \/ \E p \in Joiners(room) : JoinRoom(SocketOf(p), p)
  \/ \E s \in PlayerIds(room) :
        /\ ~room.started
        /\ ~room.players[FindById(room, s)].ready
        /\ ToggleReady(s)
  \/ /\ room.exists /\ ~room.started /\ room.gameMode = "teams"
     /\ SetGameMode(room.hostId, "individual")
  \/ /\ room.exists /\ ~room.started /\ room.teams # NoTeams
     /\ FirstUnassigned(room) # 0
     /\ AssignTeam(room.hostId, room.players[FirstUnassigned(room)].name,
                   room.teams[Min(FirstUnassigned(room), Len(room.teams))].name)
  \/ \E seed \in Seeds :
        /\ room.exists /\ ~room.started /\ canStart(room)
        /\ StartGame(room.hostId, seed)
  \/ \E s \in Senders(room), goNil \in BOOLEAN :
        /\ gs.phase = "nil-prompt"
        /\ NilDecision(s, goNil)
  \/ \E s \in Senders(room), bid \in LateBidInputs(gs) :
        /\ gs.phase = "bidding"
        /\ InNilRounds \/ (OnTurn(s) /\ bid = 1)
        /\ PlaceBid(s, bid)
  \/ \E s \in Senders(room) : \E cardId \in CardInputs(room, gs, s) :
        /\ PlaysStraight(s, cardId)
        /\ PlayCard(s, cardId)
  \/ \E seed \in Seeds :
        /\ gs.phase = "round-end"
        /\ NextRound(room.hostId, seed)
  \/ \E s \in Senders(room) :
        /\ InNilRounds /\ gs.phase \in {"nil-prompt", "bidding"}
        /\ Down(room) < MaxDown
        /\ Disconnect(s)
  \/ TimerTrick
  \/ TimerNextTrick
  \/ TimerRound
  \/ TimerSkip

SpecLate == Init /\ [][NextLate]_vars

(***************************************************************************)
(* A fourth specification, for the room: who is in it, who is its host and *)
(* how it is configured.  The clients AllNames[1], AllNames[2], ... join   *)
(* the lobby in that order, each when its name is not in the room, and a   *)
(* connection that is none of them asks to join under the host's name or   *)
(* under the name Outsider, at any time.  While the lobby has at most      *)
(* MaxLobby entries its members leave, toggle ready, change the game mode  *)
(* and the teams and put the first names in teams; a lobby grows beyond    *)
(* MaxLobby entries only while nobody is ready and it has no teams.  A     *)
(* game is started with the clients of Names only.  Its rounds 1 to        *)
(* RoomRounds are played straight through: the player whose turn it is     *)
(* bids 1 or plays its first playable card.  Meanwhile every sender sends  *)
(* the lobby events, as long as the room is configured as it was at the    *)
(* start, and the host-only events (the host sends end-game at the end of  *)
(* a round only, restart-game then and when no callback is pending,        *)
(* next-round then and when the room is as it was at the start with every  *)
(* client connected, and start-game in the lobby only), a client leaves    *)
(* the game during the bidding, and clients disconnect, when it is not     *)
(* the bidding, and join again.  A lobby with an entry that is       *)
(* disconnected or held by the other connection is not reconfigured.       *)
(***************************************************************************)
\* the socket of the client AllNames[k]
ClientSocket(k) == IF k <= NumNames THEN k ELSE Stranger + k

\* the first client whose name is not in the room, 0 when there is none
NextClient(r) ==
  LET free == {k \in 1..Len(AllNames) : AllNames[k] \notin PlayerNames(r)}
  IN IF free = {} THEN 0 ELSE CHOOSE k \in free : \A m \in free : k <= m

\* every entry is connected and is one of the clients of AllNames
AllHere(r) == Down(r) = 0 /\ FindById(r, Stranger) = 0

SmallLobby ==
  /\ room.exists /\ ~room.started /\ Len(room.players) <= MaxLobby
  /\ AllHere(room)

PlainLobby ==
  /\ room.exists /\ ~room.started /\ room.teams = NoTeams
  /\ \A k \in PlayerIdx(room) : ~room.players[k].ready

\* the room of the clients of Names, each the one member of the team of its
\* position when the room has teams
OwnTeams(r) ==
  /\ Len(r.players) = NumNames
  /\ \A k \in PlayerIdx(r) : r.players[k].name = AllNames[k]
  /\ r.teams # NoTeams =>
       /\ Len(r.teams) = Len(r.players)
       /\ \A k \in PlayerIdx(r) : r.teams[k].members = <<r.players[k].name>>

\* the room of a running game is configured as it was when the game started
AsStarted ==
  /\ room.started /\ gs.exists
  /\ OwnTeams(room)
  /\ \A k \in PlayerIdx(room) : room.players[k].ready
  /\ gs.gameMode = room.gameMode /\ gs.teams = room.teams
  /\ gs.teamsShared <=> room.teams # NoTeams

\* the names put in teams: the first MaxLobby clients
TeamInputs == {AllNames[k] : k \in 1..MaxLobby}

NextRoom ==
  \/ \E gameMode \in GameModes : CreateRoom(SocketOf(AllNames[1]), AllNames[1], gameMode)
  \/ /\ room.exists /\ ~room.started
     /\ NextClient(room) # 0
     /\ Len(room.players) >= MaxLobby => PlainLobby
     /\ JoinRoom(ClientSocket(NextClient(room)), AllNames[NextClient(room)])
  \/ \E playerName \in {AllNames[1], Outsider} :
        /\ FindById(room, Stranger) = 0
        /\ (SmallLobby /\ Len(room.players) < MaxLobby) => playerName = AllNames[1]
        /\ JoinRoom(Stranger, playerName)
  \/ \E p \in Joiners(room) : room.started /\ JoinRoom(SocketOf(p), p)
  \/ \E s \in Senders(room) : (SmallLobby \/ AsStarted) /\ ToggleReady(s)
  \/ \E s \in Senders(room), gameMode \in GameModes :
        /\ SmallLobby \/ AsStarted
        /\ SetGameMode(s, gameMode)
  \/ \E s \in Senders(room), playerName \in TeamInputs, teamName \in TeamNameSet :
        /\ SmallLobby \/ (AsStarted /\ playerName \in Names)
        /\ AssignTeam(s, playerName, teamName)
  \/ \E s \in Senders(room), numTeams \in 1..Len(TeamNames) :
        /\ SmallLobby \/ AsStarted
        /\ UpdateTeams(s, numTeams)
  \/ \E s \in Senders(room), seed \in Seeds :
        /\ room.exists
        /\ s = room.hostId => ~room.started
        /\ canStart(room) => OwnTeams(room)
        /\ StartGame(s, seed)
  \/ \E s \in Senders(room) :
        /\ gs.phase = "bidding" /\ OnTurn(s)
        /\ PlaceBid(s, 1)
  \/ \E s \in Senders(room) : \E cardId \in CardInputs(room, gs, s) :
        /\ PlaysStraight(s, cardId)
        /\ PlayCard(s, cardId)
  \/ \E s \in Senders(room), seed \in Seeds :
        /\ gs.exists /\ gs.currentRound <= RoomRounds
        /\ s = room.hostId => (gs.phase = "round-end" /\ AsStarted /\ AllHere(room))
        /\ NextRound(s, seed)
  \/ \E s \in Senders(room) :
        /\ room.exists
        /\ s = room.hostId => (gs.phase = "round-end" /\ NoPending)
        /\ RestartGame(s)
  \/ \E s \in Senders(room) :
        /\ room.exists
        /\ s = room.hostId => gs.phase = "round-end"
        /\ EndGame(s)
  \/ \E s \in Senders(room) : gs.phase = "bidding" /\ LeaveGame(s)
  \/ \E s \in Senders(room) :
        /\ \/ SmallLobby /\ Len(room.players) <= NumNames
           \/ room.started /\ Down(room) < MaxDown /\ gs.phase # "bidding"
        /\ Disconnect(s)
  \/ TimerTrick
  \/ TimerNextTrick
  \/ TimerRound
  \/ TimerSkip

SpecRoom == Init /\ [][NextRoom]_vars

(***************************************************************************)
(* A fifth specification, for the callbacks that are pending when the host *)
(* starts a game.  The room is created in teams mode, each player is put   *)
(* in a team of its own and gets ready once; the game is played straight   *)
(* through: the player whose turn it is bids 1 or plays its first playable *)
(* card, and the host sends next-round at the end of a round while         *)
(* currentRound <= MaxRound.  The host sends start-game and restart-game   *)
(* at any time, also while callbacks are pending, and the callbacks that   *)
(* are pending fire in any order.                                          *)
(***************************************************************************)
NextStale ==
  \/ CreateRoom(SocketOf(AllNames[1]), AllNames[1], "teams")
  \/ \E p \in Joiners(room) : ~room.started /\ JoinRoom(SocketOf(p), p)
  \/ \E s \in PlayerIds(room) :
        /\ ~room.started
        /\ ~room.players[FindById(room, s)].ready
        /\ ToggleReady(s)
  \/ /\ room.exists /\ ~room.started /\ room.teams # NoTeams
     /\ FirstUnassigned(room) # 0
     /\ AssignTeam(room.hostId, room.players[FirstUnassigned(room)].name,
                   room.teams[Min(FirstUnassigned(room), Len(room.teams))].name)
  \/ \E seed \in Seeds : room.exists /\ canStart(room) /\ StartGame(room.hostId, seed)
  \/ \E s \in Senders(room) :
        /\ gs.phase = "bidding" /\ OnTurn(s)
        /\ PlaceBid(s, 1)
  \/ \E s \in Senders(room) : \E cardId \in CardInputs(room, gs, s) :
        /\ PlaysStraight(s, cardId)
        /\ PlayCard(s, cardId)
  \/ \E seed \in Seeds :
        /\ gs.phase = "round-end" /\ gs.currentRound <= MaxRound
        /\ NextRound(room.hostId, seed)
  \/ room.started /\ RestartGame(room.hostId)
  \/ TimerTrick
  \/ TimerNextTrick
  \/ TimerRound
  \/ TimerSkip

SpecStale == Init /\ [][NextStale]_vars

(***************************************************************************)
(* A third specification, for the functions of gameEngine.js that the      *)
(* handlers call with values of the game: one call of one function, with   *)
(* arguments drawn from bounded sets.  A trick is a sequence of 2 to       *)
(* MaxTrick different cards of the ranks 2..NumRanks+1 of both decks, one  *)
(* per player, and the led suit is the suit of its first card, as in       *)
(* processEndOfTrick; a bid and a number of tricks are numbers of a round, *)
(* 0..LastRound; a total is within MaxTotal of 0 and a round score within  *)
(* MaxStep of 0.                                                           *)
(***************************************************************************)
CardPool == {c \in 0..(DeckSize - 1) : Value(c) <= NumRanks + 1}

\* the tricks of n cards: player k played the k-th card
RECURSIVE TricksOf(_)
TricksOf(n) ==
  IF n = 0 THEN {<< >>}
  ELSE {Append(t, [playerId |-> AllNames[n], card |-> c]) :
          t \in TricksOf(n - 1), c \in CardPool}

DistinctCards(trick) ==
  \A i, j \in 1..Len(trick) : trick[i].card = trick[j].card => i = j

\* the tricks of 2 to maxLen different cards
TrickInputs(maxLen) ==
  {t \in UNION {TricksOf(n) : n \in 2..maxLen} : DistinctCards(t)}

\* the game of the names of the room at the end of round r - 1, or as
\* createGameState leaves it when r = 1
RoundEndGames ==
  LET players == [k \in 1..NumNames |-> AllNames[k]]
      g == createGameState(players, "individual", NoTeams)
  IN {[g EXCEPT !.currentRound = 1]}
     \cup {[g EXCEPT !.currentRound = r,
                     !.phase = "round-end",
                     !.bids = [p \in Names |-> 1],
                     !.nilBids = [p \in Names |-> IF r > NilRound THEN "no" ELSE "undecided"],
                     !.tricksWon = [p \in Names |-> IF p = w THEN r - 1 ELSE 0],
                     !.currentTrick = [k \in 1..NumNames |-> [playerId |-> AllNames[k], card |-> k - 1]],
                     !.trickNumber = r - 1,
                     !.ledSuit = "spades",
                     !.spadesBroken = b,
                     !.lastTrickWinner = w] :
             r \in 2..LastRound, w \in Names, b \in BOOLEAN}

CalcInputs(maxLen) ==
  {[op |-> "determineTrickWinner", trick |-> t, result |-> NoResult] : t \in TrickInputs(maxLen)}
  \cup {[op |-> "calculateRoundScore", bid |-> b, tricksWon |-> t, isNil |-> n,
          result |-> NoResult] : b \in 0..LastRound, t \in 0..LastRound, n \in BOOLEAN}
  \cup {[op |-> "applyDenominatorPenalty", previousScore |-> p, newScore |-> p + d,
          result |-> NoResult] : p \in (-MaxTotal)..MaxTotal, d \in (-MaxStep)..MaxStep}
  \cup {[op |-> "deal", players |-> SubSeq(AllNames, 1, n), cardsPerPlayer |-> r,
          seed |-> seed, result |-> NoResult] :
            n \in MinPlayers..MaxPlayers, r \in 1..LastRound, seed \in Seeds}
  \cup {[op |-> "startRound", gameState |-> g, seed |-> seed, result |-> NoResult] :
            g \in RoundEndGames, seed \in Seeds}

InitCalc ==
  /\ room = NoRoom
  /\ gs = NoGame
  /\ timers = [k \in TimerKinds |-> 0]
  /\ roomLocks = {}
  /\ lockHeld = FALSE
  /\ emitted = {}
  /\ shown = {}
  /\ roomEver = FALSE
  /\ crashed = FALSE
  /\ calc \in CalcInputs(MaxTrick)

Returns(value) ==
  /\ calc.result = NoResult
  /\ calc' = [calc EXCEPT !.result = value]
  /\ UNCHANGED <<room, gs, timers, roomLocks, lockHeld, emitted, shown, roomEver, crashed>>

CallDetermineTrickWinner ==
  /\ calc.op = "determineTrickWinner"
  /\ Returns(determineTrickWinner(calc.trick, Suit(calc.trick[1].card)))

CallCalculateRoundScore ==
  /\ calc.op = "calculateRoundScore"
  /\ Returns(calculateRoundScore(calc.bid, calc.tricksWon, calc.isNil))

CallApplyDenominatorPenalty ==
  /\ calc.op = "applyDenominatorPenalty"
  /\ Returns(applyDenominatorPenalty(calc.previousScore, calc.newScore))

CallDeal ==
  /\ calc.op = "deal"
  /\ Returns(deal(calc.players, calc.cardsPerPlayer, calc.seed))

CallStartRound ==
  /\ calc.op = "startRound"
  /\ Returns(startRound(calc.gameState, calc.seed))

NextCalc ==
  \/ CallDeal
  \/ CallStartRound
  \/ CallDetermineTrickWinner
  \/ CallCalculateRoundScore
  \/ CallApplyDenominatorPenalty

SpecCalc == InitCalc /\ [][NextCalc]_vars

(***************************************************************************)
(* Properties.                                                             *)
(***************************************************************************)
RECURSIVE SumLen(_, _)
SumLen(hands, order) ==
  IF order = << >> THEN 0
  ELSE Len(hands[Head(order)]) + SumLen(hands, Tail(order))

\* C1: card conservation.  In every state with a game, the cards in the
\* hands of the players, plus trickNumber * |playerOrder|, plus the cards of
\* currentTrick, are currentRound * |playerOrder| cards.
C1_CardConservation ==
  gs.exists =>
    SumLen(gs.hands, gs.playerOrder) + gs.trickNumber * Len(gs.playerOrder)
      + Len(gs.currentTrick) = gs.currentRound * Len(gs.playerOrder)

\* C2: no double card play.  In every state currentTrick holds at most
\* |playerOrder| cards and at most one card of each player.
C2_NoDoublePlay ==
  gs.exists =>
    /\ Len(gs.currentTrick) <= Len(gs.playerOrder)
    /\ \A i, j \in 1..Len(gs.currentTrick) :
         gs.currentTrick[i].playerId = gs.currentTrick[j].playerId => i = j

\* C3: follow suit.  Whenever a card enters a trick that is not empty and
\* the hand of its player held a card of the led suit just before, the card
\* is of the led suit.
C3_FollowSuit ==
  [][(/\ gs.exists /\ gs'.exists
      /\ Len(gs.currentTrick) > 0
      /\ Len(gs'.currentTrick) = Len(gs.currentTrick) + 1
      /\ SubSeq(gs'.currentTrick, 1, Len(gs.currentTrick)) = gs.currentTrick)
     => LET entry == gs'.currentTrick[Len(gs'.currentTrick)]
            led == Suit(gs.currentTrick[1].card)
        IN HasSuit(gs.hands[entry.playerId], led) => Suit(entry.card) = led]_vars

\* a second player followed the led suit while holding a card of another suit
C3_Followed ==
  /\ gs.exists /\ Len(gs.currentTrick) >= 2
  /\ Suit(gs.currentTrick[2].card) = Suit(gs.currentTrick[1].card)
  /\ \E k \in 1..Len(gs.hands[gs.currentTrick[2].playerId]) :
       Suit(gs.hands[gs.currentTrick[2].playerId][k]) # Suit(gs.currentTrick[1].card)

\* the reasons for which a play-card event is rejected
C4_NoTurn(s, cardId) ==
  \/ ~room.exists \/ ~gs.exists
  \/ getPlayerName(room, s) = NoName
  \/ gs.phase # "playing"
  \/ getCurrentPlayer(gs) # getPlayerName(room, s)
  \/ IndexOf(gs.hands[getPlayerName(room, s)], cardId) = -1

C4_BreaksSuit(s, cardId) ==
  /\ ~C4_NoTurn(s, cardId)
  /\ Len(gs.currentTrick) > 0
  /\ HasSuit(gs.hands[getPlayerName(room, s)], Suit(gs.currentTrick[1].card))
  /\ Suit(cardId) # Suit(gs.currentTrick[1].card)

\* the card ids of a play-card of socket s: its cards, or one it does not hold
C4_Cards(s) ==
  IF ~gs.exists \/ getPlayerName(room, s) = NoName THEN {-1}
  ELSE {gs.hands[getPlayerName(room, s)][k] :
          k \in 1..Len(gs.hands[getPlayerName(room, s)])} \cup {-1}

\* C4: a play-card event that is rejected (no game, wrong phase, not the
\* current player, card not in the hand, follow-suit violation) leaves the
\* room and the game state unchanged; the follow-suit violation alone emits
\* a message, invalid-play, and only to the caller.  (A step of play-card
\* either finds the lock taken or takes it.)
C4_RejectedPlay ==
  [][(RoomCode \in roomLocks \/ lockHeld') =>
       \A s \in Sockets : \A cardId \in C4_Cards(s) :
         ((C4_NoTurn(s, cardId) \/ C4_BreaksSuit(s, cardId)) /\ PlayCard(s, cardId))
         => /\ gs' = gs
            /\ room' = room
            /\ emitted' = IF C4_BreaksSuit(s, cardId)
                          THEN {Msg("invalid-play", s)} ELSE {}]_vars

\* a play-card was rejected for the suit, in a trick that stays as it was
C4_InvalidPlaySent ==
  /\ lockHeld
  /\ gs.exists /\ gs.phase = "playing" /\ Len(gs.currentTrick) > 0
  /\ \E s \in PlayerIds(room) :
       /\ emitted = {Msg("invalid-play", s)}
       /\ getCurrentPlayer(gs) = getPlayerName(room, s)

\* C5: per-room serialization.  Every transition that changes the state of
\* a running game holds the lock of the room.
C5_LockHeld ==
  [][(gs.exists /\ gs'.exists /\ gs' # gs) => lockHeld']_vars

C6_PhaseSteps ==
  {<<"nil-prompt", "bidding">>, <<"bidding", "playing">>, <<"playing", "round-end">>,
   <<"round-end", "nil-prompt">>, <<"round-end", "bidding">>}

\* C6: phase order.  While a game exists the phase changes only along
\* NilPrompt -> Bidding -> Playing -> RoundEnd -> NilPrompt or Bidding, and
\* Playing -> GameOver in round 11; currentRound changes only by +1 at
\* Playing -> RoundEnd and stays within 1..11.
C6_PhaseOrder ==
  [][(gs.exists /\ gs'.exists)
     => /\ \/ gs'.phase = gs.phase
           \/ <<gs.phase, gs'.phase>> \in C6_PhaseSteps
           \/ /\ gs.phase = "playing" /\ gs'.phase = "game-over"
              /\ gs.currentRound = LastRound
        /\ \/ gs'.currentRound = gs.currentRound
           \/ /\ gs'.currentRound = gs.currentRound + 1
              /\ gs.phase = "playing" /\ gs'.phase = "round-end"
        /\ gs'.currentRound \in 1..LastRound]_vars

\* C7: bidding always completes.  In every Bidding state the current player
\* is a player who has no bid and is not nil.
C7_BiddingCompletes ==
  (gs.exists /\ gs.phase = "bidding")
  => /\ getCurrentPlayer(gs) # NoName
     /\ gs.bids[getCurrentPlayer(gs)] = NoBid
     /\ gs.nilBids[getCurrentPlayer(gs)] # "yes"

\* C8: auto-progress.  While the game waits for a player who is disconnected
\* (the current player in Bidding, or in Playing with a trick that is not
\* full), a callback that leads to the auto-action is pending; without one,
\* nothing the server does will ever act for that player.
C8_AutoProgress ==
  (/\ SkipApplies
   /\ \/ gs.phase = "bidding" /\ gs.nilBids[getCurrentPlayer(gs)] # "yes"
      \/ /\ gs.phase = "playing"
         /\ Len(gs.currentTrick) < Len(gs.playerOrder)
         /\ gs.hands[getCurrentPlayer(gs)] # << >>)
  => timers["skip"] + timers["nextTrick"] + timers["trick"] > 0

\* C9: nil is declared blind.  A nil decision becomes true only for a player
\* to whom no snapshot with their cards was sent earlier in the round.
C9_NilBlind ==
  [][(gs.exists /\ gs'.exists /\ gs'.currentRound = gs.currentRound)
     => \A p \in OrderNames(gs) :
          (gs.nilBids[p] # "yes" /\ gs'.nilBids[p] = "yes") => p \notin shown]_vars

\* C10: a player with nilBids = true has bid 0, and during the nil prompt a
\* player whose nil decision is false has no bid.
C10_NilBidZero ==
  gs.exists =>
    \A p \in OrderNames(gs) :
      /\ gs.nilBids[p] = "yes" => gs.bids[p] = 0
      /\ (gs.phase = "nil-prompt" /\ gs.nilBids[p] = "no") => gs.bids[p] = NoBid

\* C11: place-bid changes the game state only when the phase is Bidding,
\* the sender is the current player and not nil, and 0 <= bid <=
\* currentRound; every recorded bid is a number of 0..currentRound.
C11_RecordedBidInRange ==
  gs.exists =>
    \A p \in OrderNames(gs) : gs.bids[p] # NoBid => gs.bids[p] \in 0..gs.currentRound

\* the state startRound leaves: the hands are dealt, nobody has decided on
\* nil, bid or played
C12_Dealt(g) ==
  /\ g.exists /\ g.trickNumber = 0 /\ g.currentTrick = << >>
  /\ \A p \in Names : g.bids[p] = NoBid /\ g.nilBids[p] = "undecided" /\ g.tricksWon[p] = 0
  /\ \A p \in OrderNames(g) : Len(g.hands[p]) = g.currentRound

\* C12: the phase is NilPrompt only when currentRound is 10 or 11; a round
\* that starts (the step that deals its hands) starts in NilPrompt when it
\* is round 10 or 11 and in Bidding when it is one of the rounds 1..9.
C12_NilPromptRounds ==
  [][gs'.exists =>
       /\ gs'.phase = "nil-prompt" => gs'.currentRound \in {NilRound, LastRound}
       /\ (gs'.hands # gs.hands /\ C12_Dealt(gs'))
            => gs'.phase = IF gs'.currentRound \in {NilRound, LastRound}
                           THEN "nil-prompt" ELSE "bidding"]_vars

\* round 11 was dealt and waits in the nil prompt
C12_LastRoundPrompt ==
  C12_Dealt(gs) /\ gs.currentRound = LastRound /\ gs.phase = "nil-prompt"

\* the call of `op` has returned
Returned(op) == calc.op = op /\ calc.result # NoResult

\* the positions of the trick that can win: the spades when there is one,
\* the cards of the led suit otherwise
C13_Eligible(trick) ==
  LET spades == {k \in 1..Len(trick) : Suit(trick[k].card) = "spades"}
  IN IF spades # {} THEN spades
     ELSE {k \in 1..Len(trick) : Suit(trick[k].card) = Suit(trick[1].card)}

C14_RoundScore ==
  Returned("calculateRoundScore") =>
    LET b == calc.bid
        t == calc.tricksWon
    IN /\ calc.isNil =>
            calc.result = [roundScore |-> IF t = 0 THEN 100 ELSE -100, overtricks |-> 0]
       /\ (~calc.isNil /\ b = 0) => calc.result = [roundScore |-> t, overtricks |-> t]
       /\ (~calc.isNil /\ b > 0 /\ t >= b)
            => calc.result = [roundScore |-> 10 * b + (t - b), overtricks |-> t - b]
       /\ (~calc.isNil /\ b > 0 /\ t < b)
            => calc.result = [roundScore |-> -10 * b, overtricks |-> 0]

\* a bid of 3 was made with 2 overtricks: 32 points
C14_MadeWithOvertricks ==
  /\ Returned("calculateRoundScore")
  /\ ~calc.isNil /\ calc.bid = 3 /\ calc.tricksWon = 5
  /\ calc.result = [roundScore |-> 32, overtricks |-> 2]

\* the integers from p (exclusive) to q (inclusive), q being the moving side
C15_Crossed(p, q) ==
  IF q > p THEN {x \in (p + 1)..q : x % 10 = 5}
  ELSE {x \in q..(p - 1) : x % 10 = 5}

\* C15: denominator penalty.  For a previous total p and a new total q =
\* p + s, the result is q - 55 with penaltyApplied when an integer ending in
\* 5 lies between p (exclusive) and q (inclusive), and q without penalty
\* otherwise.
C15_DenominatorPenalty ==
  Returned("applyDenominatorPenalty") =>
    LET p == calc.previousScore
        q == calc.newScore
    IN calc.result = IF C15_Crossed(p, q) # {}
                     THEN [newTotal |-> q - 55, penaltyApplied |-> TRUE]
                     ELSE [newTotal |-> q, penaltyApplied |-> FALSE]

\* the round scores of the first n rows, less 55 for each penalized row
RECURSIVE C16_Total(_, _)
C16_Total(rows, n) ==
  IF n = 0 THEN 0
  ELSE C16_Total(rows, n - 1) + rows[n].roundScore
         - (IF rows[n].penaltyApplied THEN 55 ELSE 0)

\* C16: score history consistency.  For every player, the totalAfter of
\* each recorded row is the sum of the roundScore of the player's rows up to
\* and including it, less 55 for each of those rows with penaltyApplied,
\* and the totalAfter of the last row is scores[player].
C16_HistoryConsistent ==
  gs.exists =>
    \A p \in Names :
      LET rows == gs.roundHistory[p]
      IN /\ \A n \in 1..Len(rows) : rows[n].totalAfter = C16_Total(rows, n)
         /\ Len(rows) > 0 => rows[Len(rows)].totalAfter = gs.scores[p]

\* the round score of team i: the non-nil formula on the sums of the bids
\* and of the tricks of its non-nil members, and +100 or -100 for each nil
\* member
C17_RoundScore(g, i) ==
  LET b == SumOf([p \in Names |-> BidOrZero(g, p)], NonNilMembers(g, i))
      t == SumOf(g.tricksWon, NonNilMembers(g, i))
      nonNil == IF b = 0 THEN t ELSE IF t >= b THEN 10 * b + (t - b) ELSE -10 * b
  IN nonNil + SumOf([p \in Names |-> IF g.tricksWon[p] = 0 THEN 100 ELSE -100],
                    NilMembers(g, i))

\* C17: team scoring.  When a round is scored in teams mode, the total of
\* each team becomes its previous total p plus the team's round score,
\* less 55 when an integer ending in 5 lies between p (exclusive) and the
\* sum (inclusive).
C17_TeamScoring ==
  [][(gs.exists /\ gs'.exists /\ gs.gameMode = "teams")
       => \A i \in TeamIdx(gs.teams) :
            LET name == gs.teams[i].name
                p == gs.teamScores[name]
                q == p + C17_RoundScore(gs, i)
            IN Len(gs'.teamRoundHistory[name]) = Len(gs.teamRoundHistory[name]) + 1
                 => gs'.teamScores[name] = IF C15_Crossed(p, q) # {} THEN q - 55 ELSE q]_vars

\* round 11 is the last scored round of every team
C18_LastRoundScored(g) ==
  \A i \in TeamIdx(g.teams) :
    LET rows == g.teamRoundHistory[g.teams[i].name]
    IN rows # << >> /\ rows[Len(rows)].round = LastRound

\* team k has the greatest total and no team before it has as much
C18_FirstMax(g, k) ==
  /\ \A m \in TeamIdx(g.teams) :
       g.teamScores[g.teams[m].name] <= g.teamScores[g.teams[k].name]
  /\ \A m \in 1..(k - 1) :
       g.teamScores[g.teams[m].name] < g.teamScores[g.teams[k].name]

C18_GameOver(g) ==
  /\ g.phase = "game-over" /\ g.gameOver
  /\ g.currentRound = LastRound
  /\ C18_LastRoundScored(g)
  /\ \E k \in TeamIdx(g.teams) :
       /\ C18_FirstMax(g, k)
       /\ g.winner = [name |-> g.teams[k].name, score |-> g.teamScores[g.teams[k].name],
                      type |-> "team"]

\* C18: game end.  Once round 11 has been scored the phase is GameOver with
\* gameOver set and the winner is the first unit, in iteration order, whose
\* total is the greatest; GameOver is never reached before round 11 is
\* scored, and from GameOver the game stays there: no round is started
\* unless a new game is created.
C18_GameEnd ==
  [][gs'.exists =>
       /\ (gs'.phase = "game-over" \/ gs'.gameOver) => C18_GameOver(gs')
       /\ (gs'.gameMode = "teams" /\ gs'.teamRoundHistory # gs.teamRoundHistory
              /\ C18_LastRoundScored(gs'))
            => C18_GameOver(gs')
       /\ (gs.exists /\ gs.phase = "game-over")
            => \/ gs'.phase = "game-over" /\ gs'.currentRound = gs.currentRound
                    /\ gs'.hands = gs.hands
               \/ gs'.currentRound = 1 /\ \A t \in TeamNameSet : gs'.teamRoundHistory[t] = << >>]_vars

\* round 11 has been scored, both teams have the same total and the first
\* team is the winner
C18_TieFirstWins ==
  /\ gs.exists /\ gs.phase = "game-over"
  /\ Len(gs.teams) = 2
  /\ gs.teamScores[gs.teams[1].name] = gs.teamScores[gs.teams[2].name]
  /\ gs.winner.name = gs.teams[1].name

\* C19: whenever the phase is RoundEnd, trickNumber equals currentRound and
\* the hand of every player is empty.
C19_RoundEndState ==
  (gs.exists /\ gs.phase = "round-end") =>
    /\ gs.trickNumber = gs.currentRound
    /\ \A p \in OrderNames(gs) : gs.hands[p] = << >>

\* C20: whenever the phase is Playing or Bidding, currentPlayerIndex is an
\* index into playerOrder, and in Playing the player it names has not yet
\* played a card to the current trick.
C20_NextActor ==
  (gs.exists /\ gs.phase \in {"playing", "bidding"}) =>
    /\ gs.currentPlayerIndex \in 0..(Len(gs.playerOrder) - 1)
    /\ gs.phase = "playing" =>
         \A k \in 1..Len(gs.currentTrick) :
           gs.currentTrick[k].playerId # gs.playerOrder[gs.currentPlayerIndex + 1]

\* the cards of the hands of the players, with the number of the hands
\* that hold each
C21_Holders(hands, players, c) ==
  {<<k, i>> \in (1..Len(players)) \X (1..DeckSize) :
     i <= Len(hands[players[k]]) /\ hands[players[k]][i] = c}

C21_Dealt(hands, players, r) ==
  /\ \A k \in 1..Len(players) : Len(hands[players[k]]) = r
  /\ \A k \in 1..Len(players) : \A i \in 1..r :
       /\ hands[players[k]][i] \in 0..(DeckSize - 1)
       /\ C21_Holders(hands, players, hands[players[k]][i]) = {<<k, i>>}

C22_AfterDealer(g) ==
  LET n == Len(g.playerOrder)
  IN g.playerOrder[((((g.currentRound - 1) % n) + 1) % n) + 1]

\* C22: dealer and first lead.  In round r with n players the dealer is
\* playerOrder[(r-1) mod n] and the bidding starts with the player after
\* the dealer; when the bidding completes, the first trick is led by the
\* winner of the last trick of the previous round, or by the player after
\* the dealer in round 1.  A winner that has left the game leads nothing:
\* the rule is read for a winner that is still in playerOrder.
C22_DealerAndLead ==
  [][(gs'.exists /\ gs'.playerOrder # << >>) =>
       /\ (gs'.hands # gs.hands /\ C12_Dealt(gs'))
            => gs'.dealerIndex = (gs'.currentRound - 1) % Len(gs'.playerOrder)
       /\ (gs'.phase = "bidding" /\ (gs.phase # "bidding" \/ gs'.hands # gs.hands))
            => getCurrentPlayer(gs') = C22_AfterDealer(gs')
       /\ (gs.exists /\ gs.phase = "bidding" /\ gs'.phase = "playing"
              /\ gs'.currentRound = gs.currentRound)
            => \/ gs'.currentRound # 1 /\ gs.lastTrickWinner \notin OrderNames(gs')
               \/ getCurrentPlayer(gs') = IF gs'.currentRound = 1 THEN C22_AfterDealer(gs')
                                          ELSE gs.lastTrickWinner]_vars

\* the names a join-room carries: those of the clients, and another one
C23_JoinNames == Names \cup {Outsider}

C23_Disconnected(r, playerName) ==
  \E k \in PlayerIdx(r) : r.players[k].name = playerName /\ ~r.players[k].connected

\* C23: a reconnect requires a disconnected entry.  A join-room on a started
\* room succeeds, replacing the entry's id and setting connected, only when
\* an entry with that name exists and is disconnected; when the named
\* player is connected or no entry has the name, the join is refused and
\* the entries, the hostId and the game state are unchanged.
C23_ReconnectNeedsDisconnected ==
  [][\A s \in Sockets, playerName \in C23_JoinNames :
       (room.exists /\ room.started /\ JoinRoom(s, playerName))
         => IF C23_Disconnected(room, playerName)
            THEN /\ room'.players[FindByName(room, playerName)].id = s
                 /\ room'.players[FindByName(room, playerName)].connected
            ELSE room' = room /\ gs' = gs]_vars

\* every socket and every name of the clients and of the other connection
C24_Sockets == {ClientSocket(k) : k \in 1..Len(AllNames)} \cup {Stranger}
C24_Names == {AllNames[k] : k \in 1..Len(AllNames)} \cup {Outsider}

\* the joins that are answered with a membership error
C24_Fails(playerName) ==
  \/ ~room.exists
  \/ room.started /\ playerName \notin PlayerNames(room)
  \/ ~room.started /\ Len(room.players) >= 8
  \/ ~room.started /\ playerName \in PlayerNames(room)

\* C24: a join-room that fails with a membership error (room not found,
\* name taken, room full, game already started) leaves the rooms table and
\* the room's players, hostId, teams and game state unchanged.
C24_FailedJoin ==
  [][\/ room' = room /\ gs' = gs /\ roomEver' = roomEver
     \/ \A playerName \in C24_Names :
          C24_Fails(playerName) => \A s \in C24_Sockets : ~JoinRoom(s, playerName)]_vars

\* the room is full, the other connection is not in it, and the last event
\* was answered without a broadcast, as its join-room is
C24_RefusedAtFullRoom ==
  /\ room.exists /\ ~room.started
  /\ Len(room.players) = 8
  /\ FindById(room, Stranger) = 0
  /\ emitted = {}

\* C25: in every reachable state the room has at most 8 player entries and
\* no two of its entries have the same name, whatever create-room,
\* join-room (reconnects included), leave, disconnect and restart events
\* came before.
C25_RoomBounds ==
  room.exists =>
    /\ Len(room.players) <= 8
    /\ \A k, m \in PlayerIdx(room) : room.players[k].name = room.players[m].name => k = m

\* a room of 8 entries under 8 names
C25_EightNames ==
  /\ room.exists
  /\ Len(room.players) = 8
  /\ Cardinality(PlayerNames(room)) = 8

\* the entries of room' are those of room without entry i, in the same order
C26_Removed(i) ==
  /\ Len(room'.players) = Len(room.players) - 1
  /\ \A k \in 1..(i - 1) : room'.players[k] = room.players[k]
  /\ \A k \in i..Len(room'.players) : room'.players[k] = room.players[k + 1]

\* C26: leaveRoom.  On a room that is not started it removes the player's
\* entry, deletes the room when it becomes empty, and otherwise makes the
\* first remaining player the host when the leaver was the host; on a
\* started room it only sets the player's connected flag to false and keeps
\* the entry, the room and the hostId.
C26_LeaveRoom ==
  [][\A s \in C24_Sockets :
       Disconnect(s) =>
         LET i == FindById(room, s)
         IN IF room.started
            THEN room' = [room EXCEPT !.players[i].connected = FALSE]
            ELSE IF Len(room.players) = 1
            THEN ~room'.exists
            ELSE /\ room'.exists /\ C26_Removed(i)
                 /\ room'.hostId = IF room.hostId = s THEN room'.players[1].id
                                   ELSE room.hostId
                 /\ room'.started = room.started
                 /\ room'.gameMode = room.gameMode /\ room'.teams = room.teams]_vars

\* the host has left the lobby and the first remaining player is host
C26_HostTransferred ==
  /\ room.exists /\ ~room.started
  /\ AllNames[1] \notin PlayerNames(room)
  /\ room.hostId = room.players[1].id
  /\ room.players[1].name = AllNames[2]

\* room' is room but for the id and the connected flag of entry i and the
\* hostId
C27_OnlyEntry(i) ==
  room' = [room EXCEPT !.players[i].id = room'.players[i].id,
                       !.players[i].connected = room'.players[i].connected,
                       !.hostId = room'.hostId]

\* C27: disconnect and reconnect preserve identity.  In a started game a
\* disconnect changes only the connected flag of the player's entry, and a
\* join-room under the name of a disconnected entry changes only the id
\* and the connected flag of that entry, and the hostId when the entry was
\* the host's; hands, bids, nilBids, tricksWon, scores, roundHistory,
\* currentTrick, playerOrder, phase and currentPlayerIndex are as before.
C27_IdentityKept ==
  [][(room.exists /\ room.started /\ gs.exists) =>
       /\ \A s \in C24_Sockets :
            Disconnect(s) =>
              LET i == FindById(room, s)
              IN /\ gs' = gs
                 /\ C27_OnlyEntry(i)
                 /\ room'.players[i].id = s /\ ~room'.players[i].connected
                 /\ room'.hostId = room.hostId
       /\ \A playerName \in C23_JoinNames :
            C23_Disconnected(room, playerName) =>
              \A s \in C24_Sockets :
                JoinRoom(s, playerName) =>
                  LET i == FindByName(room, playerName)
                  IN /\ gs' = gs
                     /\ C27_OnlyEntry(i)
                     /\ room'.players[i].id = s /\ room'.players[i].connected
                     /\ room'.hostId = IF room.hostId = room.players[i].id THEN s
                                       ELSE room.hostId]_vars

\* a player is disconnected while cards lie in the trick and are held
C27_DownInTrick ==
  /\ room.exists /\ room.started /\ gs.exists
  /\ Down(room) = 1
  /\ gs.phase = "playing" /\ Len(gs.currentTrick) = 1
  /\ \E p \in OrderNames(gs) : gs.hands[p] # << >>

\* C28: host-only actions.  A start-game, next-round, restart-game or
\* end-game event of a session whose id is not the room's hostId leaves the
\* room (started flag, players, ready flags, game state) and the rooms
\* table unchanged.
C28_HostOnly ==
  [][\/ room' = room /\ gs' = gs /\ roomEver' = roomEver
     \/ \A s \in C24_Sockets \ {room.hostId} :
          /\ \A seed \in Seeds : ~StartGame(s, seed) /\ ~NextRound(s, seed)
          /\ ~RestartGame(s)
          /\ ~EndGame(s)]_vars

\* at the end of a round, with a player who is not the host connected, the
\* last event was ignored
C28_IgnoredAtRoundEnd ==
  /\ room.exists /\ room.started /\ gs.exists
  /\ gs.phase = "round-end"
  /\ \E k \in PlayerIdx(room) :
       room.players[k].connected /\ room.players[k].id # room.hostId
  /\ emitted = {}

\* one of the four configuration events of the lobby, sent by socket s
C29_LobbyEvent(s) ==
  \/ ToggleReady(s)
  \/ \E gameMode \in GameModes : SetGameMode(s, gameMode)
  \/ \E playerName \in Names, teamName \in TeamNameSet : AssignTeam(s, playerName, teamName)
  \/ \E numTeams \in 1..Len(TeamNames) : UpdateTeams(s, numTeams)

\* C29: lobby-only configuration.  Once the room is started, toggle-ready,
\* set-game-mode, assign-team and update-teams change nothing: the room's
\* gameMode, teams and ready flags and the running game's gameMode and
\* teams are the same before and after the event.
C29_LobbyOnly ==
  [][(room.exists /\ room.started /\ gs.exists) =>
       \A s \in C24_Sockets :
         C29_LobbyEvent(s) =>
           /\ room'.gameMode = room.gameMode
           /\ room'.teams = room.teams
           /\ \A k \in PlayerIdx(room) : room'.players[k].ready = room.players[k].ready
           /\ gs'.gameMode = gs.gameMode
           /\ gs'.teams = gs.teams]_vars

\* the number of teams of r that playerName is a member of
C30_TeamsOf(r, playerName) ==
  Cardinality({i \in TeamIdx(r.teams) : playerName \in TeamMembers(r.teams, i)})

C30_Required(r) ==
  /\ r.exists
  /\ Len(r.players) >= 2
  /\ \A k \in PlayerIdx(r) : r.players[k].ready
  /\ r.gameMode = "teams" =>
       /\ Len(r.players) % 2 = 0
       /\ \A k \in PlayerIdx(r) : C30_TeamsOf(r, r.players[k].name) = 1
       /\ \A i \in TeamIdx(r.teams) : r.teams[i].members # << >>

\* C30: a game is created by start-game only when canStart holds, and
\* canStart holds exactly when the room has at least 2 players, all of them
\* ready, and, in teams mode, the number of players is even, every player
\* of the room is a member of exactly one team, and no team is empty.
C30_CanStart ==
  [][/\ canStart(room) <=> C30_Required(room)
     /\ \A s \in C24_Sockets, seed \in Seeds :
          (StartGame(s, seed) /\ gs' # gs) => (s = room.hostId /\ C30_Required(room))]_vars

\* a game of a room with teams has just been created
C30_TeamGameCreated ==
  /\ room.exists /\ room.started /\ room.gameMode = "teams"
  /\ gs.exists /\ gs.currentRound = 1 /\ gs.phase = "bidding"
  /\ \A p \in Names : gs.bids[p] = NoBid
  /\ C30_Required(room)

\* C31: after a restart-game of the host the room is back in the lobby:
\* started is false, the game is absent, every ready flag is false, and the
\* room keeps its host and its list of players; a new game can then be
\* started from that lobby, which needs every entry ready, and an entry is
\* made ready only by the toggle-ready of its own connected session.
C31_RestartToLobby ==
  [][\A s \in C24_Sockets :
       (room.exists /\ s = room.hostId /\ RestartGame(s)) =>
         /\ room'.exists /\ ~room'.started /\ ~gs'.exists
         /\ room'.hostId = room.hostId
         /\ room'.gameMode = room.gameMode /\ room'.teams = room.teams
         /\ Len(room'.players) = Len(room.players)
         /\ \A k \in PlayerIdx(room) :
              /\ room'.players[k] = [room.players[k] EXCEPT !.ready = FALSE]
              /\ room'.players[k].connected]_vars

\* C32: disconnected entries exist only while a game is in progress.  In
\* every reachable state a room that is not started has no entry with
\* connected = false, also after restart-game has returned a room with
\* disconnected players to the lobby.
C32_LobbyAllConnected ==
  (room.exists /\ ~room.started) =>
    \A k \in PlayerIdx(room) : room.players[k].connected

\* a setTimeout callback fires
C33_Callback == TimerTrick \/ TimerNextTrick \/ TimerRound \/ TimerSkip

\* C33: a scheduled callback (trick resolution, round scoring, delayed
\* broadcast or auto-skip) that fires after its room was deleted, or after
\* its game was removed by restart-game, is a no-op: it changes no room,
\* creates no room and raises no error.
C33_DeadCallback ==
  [][((~room.exists \/ ~gs.exists) /\ ~crashed /\ C33_Callback) =>
       /\ room' = room /\ gs' = gs
       /\ roomEver' = roomEver
       /\ ~crashed'
       /\ emitted' = {}]_vars

\* the room is gone, or back in the lobby, while the resolution of a trick
\* or the scoring of a round is pending
C33_PendingWithoutGame ==
  /\ roomEver /\ ~crashed
  /\ ~gs.exists
  /\ timers["trick"] > 0 \/ timers["round"] > 0


(***************************************************************************)
(* C34: hand privacy.  Every game-state snapshot emitted is addressed to   *)
(* the socket of one connected entry of room.players; the cards in it are  *)
(* exactly the hand of that entry's player, and none while that player is  *)
(* undecided in the nil prompt; the hands of the other players of          *)
(* playerOrder appear only as counts, equal to the lengths of their hands. *)
(***************************************************************************)
C34_Snapshots == {m \in emitted : m.type = "game-state"}

C34_Cards(hand) == {hand[i] : i \in 1..Len(hand)}

C34_HandPrivacy ==
  \A m \in C34_Snapshots :
    /\ room.exists /\ gs.exists
    /\ Cardinality({k \in PlayerIdx(room) :
          room.players[k].name = m.myName /\ room.players[k].id = m.to}) = 1
    /\ \A k \in PlayerIdx(room) :
          room.players[k].name = m.myName => room.players[k].connected
    /\ IF gs.phase = "nil-prompt" /\ gs.nilBids[m.myName] = "undecided"
       THEN m.hand = << >>
       ELSE /\ Len(m.hand) = Len(gs.hands[m.myName])
            /\ C34_Cards(m.hand) = C34_Cards(gs.hands[m.myName])
    /\ DOMAIN m.otherHandCounts = OrderNames(gs) \ {m.myName}
    /\ \A p \in DOMAIN m.otherHandCounts : m.otherHandCounts[p] = Len(gs.hands[p])

\* a broadcast in the nil prompt that hides the cards of an undecided player
\* and shows a decided player its cards
C34_MixedBroadcast ==
  /\ room.exists /\ gs.exists /\ gs.phase = "nil-prompt"
  /\ \E m \in C34_Snapshots : m.hand = << >> /\ gs.hands[m.myName] # << >>
  /\ \E m \in C34_Snapshots : m.hand # << >>


(***************************************************************************)
(* C35: trick resolution.  When processEndOfTrick resolves a trick to      *)
(* which every player of playerOrder has played one card, tricksWon of the *)
(* winner and of nobody else goes up by 1, lastTrickWinner is the winner   *)
(* and trickNumber goes up by 1; when trickNumber is then below            *)
(* currentRound the trick is emptied, ledSuit is cleared and the current   *)
(* player is the winner, who leads the next trick; otherwise the scoring   *)
(* of the round is scheduled.                                              *)
(***************************************************************************)
C35_Full ==
  /\ room.exists /\ gs.exists /\ gs.phase = "playing"
  /\ gs.currentTrick # << >>
  /\ \A p \in OrderNames(gs) :
        Cardinality({k \in 1..Len(gs.currentTrick) : gs.currentTrick[k].playerId = p}) = 1

C35_Winner ==
  determineTrickWinner(gs.currentTrick, Suit(gs.currentTrick[1].card)).winnerId

\* what the claim says of the counters and of the scheduling
C35_Counted ==
  /\ gs'.tricksWon = [gs.tricksWon EXCEPT ![C35_Winner] = @ + 1]
  /\ gs'.lastTrickWinner = C35_Winner
  /\ gs'.trickNumber = gs.trickNumber + 1
  /\ IF gs'.trickNumber < gs'.currentRound
     THEN /\ gs'.currentTrick = << >> /\ gs'.ledSuit = "none"
          /\ gs'.currentPlayerIndex = IndexOf(gs'.playerOrder, C35_Winner)
     ELSE timers'["round"] = timers["round"] + 1

C35_TrickResolution ==
  [][(C35_Full /\ TimerTrick) =>
       /\ C35_Counted
       /\ gs'.trickNumber < gs'.currentRound => getCurrentPlayer(gs') = C35_Winner]_vars


(***************************************************************************)
(* C36: auto-actions are taken only for disconnected players.  A run of    *)
(* handleDisconnectedTurn changes neither the hand, nor the bid, nor the   *)
(* nil decision of a player whose entry is connected; for a disconnected   *)
(* current player in phase playing it plays the first card of the hand     *)
(* that is a valid play, for a disconnected current bidder who is not nil  *)
(* it records the bid 0, and in the nil prompt it records "no nil" for     *)
(* every undecided player whose entry is disconnected.                     *)
(***************************************************************************)
C36_Connected(p) ==
  \E k \in PlayerIdx(room) : room.players[k].name = p /\ room.players[k].connected

C36_Disconnected(p) ==
  \E k \in PlayerIdx(room) : room.players[k].name = p /\ ~room.players[k].connected

\* nothing is done for a connected player
C36_ConnectedUntouched ==
  \A p \in Names :
    C36_Connected(p) =>
      /\ gs'.hands[p] = gs.hands[p]
      /\ gs'.bids[p] = gs.bids[p]
      /\ gs'.nilBids[p] = gs.nilBids[p]

\* the card played for the current player, whose hand is not empty
C36_FirstValid ==
  LET p == getCurrentPlayer(gs)
      hand == gs.hands[p]
      isLeading == Len(gs.currentTrick) = 0
      ok == {k \in 1..Len(hand) :
               isValidPlay(hand[k], hand, TrickLedSuit(gs), gs.spadesBroken, isLeading)}
  IN /\ ok # {}
     /\ Len(gs'.currentTrick) = Len(gs.currentTrick) + 1
     /\ gs'.currentTrick[Len(gs'.currentTrick)] =
          [playerId |-> p, card |-> hand[CHOOSE k \in ok : \A m \in ok : k <= m]]

C36_Acts(phase) ==
  /\ room.exists /\ gs.exists /\ gs.phase = phase
  /\ C36_Disconnected(getCurrentPlayer(gs))

C36_AutoActions ==
  [][TimerSkip =>
       /\ (room.exists /\ gs.exists) => C36_ConnectedUntouched
       /\ (C36_Acts("playing") /\ gs.hands[getCurrentPlayer(gs)] # << >>) => C36_FirstValid
       /\ (C36_Acts("bidding") /\ gs.nilBids[getCurrentPlayer(gs)] # "yes") =>
            gs'.bids[getCurrentPlayer(gs)] = 0
       /\ (room.exists /\ gs.exists /\ gs.phase = "nil-prompt") =>
            \A p \in OrderNames(gs) :
              (gs.nilBids[p] = "undecided" /\ C36_Disconnected(p)) => gs'.nilBids[p] = "no"]_vars


(***************************************************************************)
(* C37: bounded auto-progress.  The chain of runs of handleDisconnectedTurn*)
(* that follows one event ends by itself: a run that acts for the current  *)
(* player and schedules the next run has changed the room or the game (a   *)
(* run that changes neither and leaves a run pending is followed by the    *)
(* same run, 300 ms later, for as long as no client sends an event).       *)
(***************************************************************************)
C37_IdleRun ==
  /\ SkipApplies /\ TimerSkip
  /\ room' = room /\ gs' = gs
  /\ timers' = timers
  /\ emitted' # {}

C37_ChainEnds == [][~C37_IdleRun]_vars


(***************************************************************************)
(* C38: start-game in a started room.  A start-game event from the host of *)
(* a room that is already started leaves the game as it is: currentRound,  *)
(* the scores, the round history, the hands and the phase are neither      *)
(* reset nor dealt again.                                                  *)
(***************************************************************************)
C38_SameGame ==
  /\ gs'.exists
  /\ gs'.currentRound = gs.currentRound
  /\ gs'.phase = gs.phase
  /\ gs'.hands = gs.hands
  /\ gs'.scores = gs.scores /\ gs'.teamScores = gs.teamScores
  /\ gs'.roundHistory = gs.roundHistory /\ gs'.teamRoundHistory = gs.teamRoundHistory

C38_StartWhileStarted ==
  [][\A s \in Sockets, seed \in Seeds :
       (room.exists /\ room.started /\ gs.exists /\ s = room.hostId /\ StartGame(s, seed))
         => C38_SameGame]_vars


(***************************************************************************)
(* C39: the callbacks act only on the trick or round they were scheduled   *)
(* for.  processEndOfRound scores a game only in phase playing with        *)
(* trickNumber = currentRound (so once per round), and processEndOfTrick   *)
(* resolves only a trick of exactly |playerOrder| cards, whatever the      *)
(* clients sent while the callback was pending.                            *)
(***************************************************************************)
\* the callback passes its guards and works on the game
C39_Scores == room.exists /\ gs.exists /\ TimerRound

C39_Resolves == room.exists /\ gs.exists /\ gs.currentTrick # << >> /\ TimerTrick

C39_OwnTrickOrRound ==
  [][/\ C39_Scores => (gs.phase = "playing" /\ gs.trickNumber = gs.currentRound)
     /\ C39_Resolves => Len(gs.currentTrick) = Len(gs.playerOrder)]_vars


(***************************************************************************)
(* C40: the trick count.  While a game exists the tricks won by all the    *)
(* players add up to trickNumber and trickNumber is at most currentRound;  *)
(* a completed trick is resolved once: processEndOfTrick credits a winner  *)
(* only in phase playing, while tricks of the round are still to be        *)
(* resolved (trickNumber < currentRound).                                  *)
(***************************************************************************)
C40_TricksWon(g) == SumOf(g.tricksWon, SubSeq(AllNames, 1, NumNames))

C40_Counted(g) ==
  g.exists =>
    /\ C40_TricksWon(g) = g.trickNumber
    /\ g.trickNumber <= g.currentRound

C40_TrickCount ==
  [][/\ C40_Counted(gs')
     /\ C39_Resolves => (gs.phase = "playing" /\ gs.trickNumber < gs.currentRound)]_vars

====
